---- MODULE Spec2Model ----
(***************************************************************************)
(* Model of the analyze-article-image edge function                        *)
(* (supabase/functions/analyze-article-image/index.ts).                    *)
(*                                                                         *)
(* One request is followed from its arrival to its response.  The request  *)
(* (method, headers, body), the server configuration and the outcomes of   *)
(* the external calls (auth lookup, database lookup, storage download, AI  *)
(* service) are inputs.  Text is modelled as a tuple of fragments: a       *)
(* template literal `prefix ${x}` is <<"prefix ", x>>, and                 *)
(* String.prototype.includes is membership of a fragment.                  *)
(***************************************************************************)
EXTENDS Integers, Sequences, FiniteSets, TLC

VARIABLES
    method,            \* req.method
    GEMINI_API_KEY,    \* module constant read from the environment (TRUE = configured)
    authHeader,        \* req.headers.get("Authorization") (TRUE = present)
    body,              \* what req.json() yields: NotJson or the parsed object
    pc,                \* position of the handler
    userResult,        \* outcome of supabase.auth.getUser()
    familyMember,      \* row returned by the family_members lookup
    writingStyle,      \* let writingStyle
    i,                 \* position of the for..of loop in imageUrls (1-based)
    filePath,          \* pathMatch[1] of the URL being processed
    imageParts,        \* const imageParts
    errors,            \* const errors
    partIdx,           \* history: input position of every entry of imageParts
    errIdx,            \* history: input position of every entry of errors
    prompt,            \* let prompt
    aiCalls,           \* history: number of generateContent calls
    parts,             \* const parts, the contents passed to generateContent
    aiReply,           \* history: outcome of the generateContent call
    downloads,         \* history: number of storage downloads started
    bodyRead,          \* history: req.json() was called
    response,          \* the Response returned, [status |-> 0] while none
    memberRow,         \* history: the family_members row whose id is sellerId
    parked,            \* the local state of a second request suspended at an await
    input,             \* argument of the function under study
    output,            \* its result
    stage,             \* position of the study of a function
    signup,            \* SignupPage: its useState values and the position of handleSubmit
    onboarding,        \* OnboardingPage: its state, handleComplete and the tables it writes
    team,              \* TeamStep: members, defaultMemberId, newMemberName
    agent,             \* VirtualAgent: its state, refs and the audio sources
    route              \* the router: location, auth context and what is rendered

vars == <<method, GEMINI_API_KEY, authHeader, body, pc, userResult,
          familyMember, writingStyle, i, filePath, imageParts, errors,
          partIdx, errIdx, prompt, aiCalls, parts, aiReply, downloads,
          bodyRead, response, memberRow, parked, input, output, stage,
          signup, onboarding, team, agent, route>>

\* the state of the browser application
pages == <<signup, onboarding, team, agent, route>>

\* the state outside one run of the handler
outside == <<parked, input, output, stage, pages>>

\* a component that is not rendered
Unmounted == [mounted |-> FALSE]

\* the edge function runs without the browser application
NoPages ==
    /\ signup = Unmounted
    /\ onboarding = Unmounted
    /\ team = Unmounted
    /\ agent = Unmounted
    /\ route = Unmounted

----------------------------------------------------------------------------
(* Bounds *)

\* longest imageUrls list of a request
MaxImages == 3

\* number of required fields a JSON reply of the AI service may lack or leave empty
MaxDefects == 1

----------------------------------------------------------------------------
(* JavaScript values *)

Undefined == [t |-> "undefined"]
JStr(s) == [t |-> "string", s |-> s]
JNum(n) == [t |-> "number", n |-> n]
JArr(a) == [t |-> "array", a |-> a]

\* property read obj.f on a parsed JSON object
Get(obj, f) == IF f \in DOMAIN obj THEN obj[f] ELSE Undefined

\* JSON.stringify of an object: properties holding undefined are dropped
Stringify(obj) ==
    LET keep == {f \in DOMAIN obj : obj[f].t # "undefined"}
    IN  [f \in keep |-> obj[f]]

\* String.prototype.includes on a text made of fragments
Includes(msg, sub) == \E k \in 1..Len(msg) : msg[k] = sub

----------------------------------------------------------------------------
(* Image URLs, storage objects and the base64 encoding *)

UrlA == "https://p.supabase.co/storage/v1/object/public/article-photos/u1/a.png"
UrlB == "https://p.supabase.co/storage/v1/object/public/article-photos/b.jpg"
UrlOtherBucket == "https://p.supabase.co/storage/v1/object/public/avatars/a.png"
UrlNotAUrl == "not a url"

\* messages of the exceptions the environment may raise
ExcMessages == {<<"connection reset">>}

\* new URL(url).pathname, as its "/"-separated segments
Pathname(url) ==
    CASE url = UrlA -> <<"storage", "v1", "object", "public", "article-photos", "u1", "a.png">>
      [] url = UrlB -> <<"storage", "v1", "object", "public", "article-photos", "b.jpg">>
      [] url = UrlOtherBucket -> <<"storage", "v1", "object", "public", "avatars", "a.png">>
      [] OTHER -> <<>>

StoragePrefix == <<"storage", "v1", "object", "public", "article-photos">>

\* positions at which /\/storage\/v1\/object\/public\/article-photos\/(.+)$/ matches:
\* the five segments of the prefix followed by a non-empty rest
MatchPositions(pathname) ==
    {k \in 1..Len(pathname) :
        /\ k + Len(StoragePrefix) <= Len(pathname)
        /\ SubSeq(pathname, k, k + Len(StoragePrefix) - 1) = StoragePrefix
        /\ \/ Len(pathname) > k + Len(StoragePrefix)
           \/ pathname[Len(pathname)] # ""}

\* parsedUrl.pathname.match(...): null (<<>> here) or the captured path
\* of the leftmost match
PathMatch(pathname) ==
    IF MatchPositions(pathname) = {} THEN <<>>
    ELSE LET k == CHOOSE m \in MatchPositions(pathname) :
                      \A n \in MatchPositions(pathname) : m <= n
         IN  SubSeq(pathname, k + Len(StoragePrefix), Len(pathname))

chunkSize == 32768

Min(a, b) == IF a < b THEN a ELSE b

\* a chunk loop that drops the byte at each chunk boundary
RECURSIVE BinaryStringSkipping(_, _, _)
BinaryStringSkipping(bytes, size, k) ==
    IF k >= Len(bytes) THEN <<>>
    ELSE SubSeq(bytes, k + 1, Min(k + size, Len(bytes)))
             \o BinaryStringSkipping(bytes, size, k + size + 1)

\* the loop "for (let i = 0; i < uint8Array.length; i += chunkSize)":
\* the binary string built from the chunks from offset k on
RECURSIVE BinaryString(_, _, _)
BinaryString(bytes, size, k) ==
    IF k >= Len(bytes) THEN <<>>
    ELSE SubSeq(bytes, k + 1, Min(k + size, Len(bytes)))
             \o BinaryString(bytes, size, k + size)

\* btoa: the base64 text as alphabet positions 0..63, 64 standing for "="
RECURSIVE btoa(_)
btoa(s) ==
    IF Len(s) = 0 THEN <<>>
    ELSE IF Len(s) = 1
    THEN <<s[1] \div 4, (s[1] % 4) * 16, 64, 64>>
    ELSE IF Len(s) = 2
    THEN <<s[1] \div 4, (s[1] % 4) * 16 + (s[2] \div 16), (s[2] % 16) * 4, 64>>
    ELSE <<s[1] \div 4, (s[1] % 4) * 16 + (s[2] \div 16),
           (s[2] % 16) * 4 + (s[3] \div 64), s[3] % 64>>
             \o btoa(SubSeq(s, 4, Len(s)))

\* the entry pushed on imageParts for a downloaded object
ImagePart(fileData) ==
    [inlineData |->
        [mimeType |-> IF fileData.type # "" THEN fileData.type ELSE "image/jpeg",
         data |-> btoa(BinaryString(fileData.bytes, chunkSize, 0))]]

----------------------------------------------------------------------------
(* Request bodies *)

NotJson == [t |-> "notjson"]

\* all sequences over S of length lo..hi
SeqsOf(S, lo, hi) == UNION {[1..n -> S] : n \in lo..hi}

Article1 == [title |-> "Robe", brand |-> "Zara", size |-> "M", price |-> 12]
Article2 == [title |-> "Pull", brand |-> "", size |-> "", price |-> 8]

DefaultExtras == [sellerId |-> Undefined, isLot |-> FALSE, lotArticles |-> Undefined]

MakeBody(urls, x) ==
    [t |-> "object", imageUrls |-> urls, sellerId |-> x.sellerId,
     isLot |-> x.isLot, lotArticles |-> x.lotArticles]

\* the bodies considered: every image list up to MaxImages with the default
\* options, and every combination of options with the image lists up to one URL
Bodies ==
    LET
        \* imageUrls of a body: missing, not an array, or an array of URLs
        ImageLists(hi) ==
            LET
                Urls ==
                    LET
                        GoodUrls == {UrlA, UrlB}
                    IN
                        GoodUrls \cup {UrlOtherBucket, UrlNotAUrl}
            IN
            {Undefined, JStr(UrlA)} \cup {JArr(a) : a \in SeqsOf(Urls, 0, hi)}
        Extras ==
            LET
                SellerIds == {Undefined, JStr("seller-1")}
                LotLists == {Undefined, JArr(<<>>), JArr(<<Article1, Article2>>)}
            IN
                  [sellerId : SellerIds, isLot : BOOLEAN, lotArticles : LotLists]
    IN
    {NotJson}
        \cup {MakeBody(u, DefaultExtras) : u \in ImageLists(MaxImages)}
        \cup {MakeBody(u, x) : u \in ImageLists(1), x \in Extras}

----------------------------------------------------------------------------
(* Outcomes of the external calls *)

\* family_members rows the lookup .eq("id", sellerId).eq("user_id", user.id)
\* may return; NoRow when no row of this user has that id
NoRow == [t |-> "null"]
MemberRow(ws, pid) == [t |-> "row", writing_style |-> ws, persona_id |-> pid]

\* the lookup without the .eq("user_id", user.id) filter
MaybeSingleAnyOwner(entry, userId) ==
    IF entry.row.t = "row" THEN entry.row ELSE NoRow

\* .eq("user_id", user.id).maybeSingle() on the row whose id is sellerId
MaybeSingle(entry, userId) ==
    IF entry.row.t = "row" /\ entry.user_id = userId THEN entry.row ELSE NoRow

RequiredFields ==
    {"title", "description", "brand", "category", "color", "condition", "season"}
ResultFields ==
    LET
        OptionalFields ==
            {"subcategory", "material", "size", "suggestedPeriod", "estimatedPrice",
             "seoKeywords", "hashtags", "searchTerms", "confidenceScore"}
    IN
                RequiredFields \cup OptionalFields

\* a value of the declared type for each field of a reply
SampleValue(f) ==
    CASE f = "title" -> JStr("Robe Zara fleurie M")
      [] f = "description" -> JStr("Jolie robe")
      [] f = "brand" -> JStr("Zara")
      [] f = "category" -> JStr("tops")
      [] f = "color" -> JStr("Noir")
      [] f = "condition" -> JStr("good")
      [] f = "season" -> JStr("summer")
      [] f = "subcategory" -> JStr("robe")
      [] f = "material" -> JStr("Coton")
      [] f = "size" -> JStr("M")
      [] f = "suggestedPeriod" -> JStr("Avril - Juin")
      [] f = "estimatedPrice" -> JNum(15)
      [] f = "seoKeywords" -> JArr(<<"robe zara">>)
      [] f = "hashtags" -> JArr(<<"#zara">>)
      [] f = "searchTerms" -> JArr(<<"robe zara ete">>)
      [] f = "confidenceScore" -> JNum(85)
      [] OTHER -> JStr("x")

ReplyObjects ==
    LET
        \* a reply with values outside the vocabulary of the prompt, of another type
        \* than the schema declares, a null, and a field outside the schema
        OddReply ==
            [f \in RequiredFields \cup {"estimatedPrice", "material", "size", "notes"} |->
                CASE f = "color" -> JStr("Turquoise")
                  [] f = "condition" -> JStr("like new")
                  [] f = "estimatedPrice" -> JStr("15 EUR")
                  [] f = "material" -> [t |-> "null"]
                  [] f = "size" -> JNum(38)
                  [] OTHER -> SampleValue(f)]
        \* RequiredOnlyReply with the fields of missing removed and those of empty set to ""
        DefectiveReply(missing, empty) ==
            [f \in RequiredFields \ missing |->
                IF f \in empty THEN JStr("") ELSE SampleValue(f)]
        RequiredOnlyReply == [f \in RequiredFields |-> SampleValue(f)]
        FullReply == [f \in ResultFields \cup {"notes"} |-> SampleValue(f)]
    IN
    {RequiredOnlyReply, FullReply, OddReply}
        \cup {DefectiveReply(d.m, d.e) :
                d \in {x \in [m : SUBSET RequiredFields, e : SUBSET RequiredFields] :
                         /\ x.m \cap x.e = {}
                         /\ Cardinality(x.m \cup x.e) \in 1..MaxDefects}}

\* ai.models.generateContent(...): an exception, or a response whose text is
\* empty, not JSON, the JSON null, or a JSON object
AiOutcomes ==
    LET
        \* messages of the errors generateContent may throw (<<>>: an error without message)
        AiErrorMessages ==
            {<<"429 ", "RESOURCE_EXHAUSTED">>, <<"You exceeded your current ", "quota">>,
             <<"API key", " not valid">>, <<"quota", " and ", "API key">>,
             <<"fetch failed">>, <<>>}
    IN
    {[kind |-> "throws", message |-> m] : m \in AiErrorMessages}
        \cup {[kind |-> "empty"], [kind |-> "null"],
              [kind |-> "invalid", text |-> <<"{not json">>]}
        \cup {[kind |-> "object", value |-> o] : o \in ReplyObjects}

NoOutcome == [kind |-> "none"]

----------------------------------------------------------------------------
(* Responses *)

Null == [t |-> "null"]

corsHeaders ==
    [AccessControlAllowOrigin |-> "*",
     AccessControlAllowMethods |-> "GET, POST, PUT, DELETE, OPTIONS",
     AccessControlAllowHeaders |-> "Content-Type, Authorization, X-Client-Info, Apikey"]

NoResponse == [status |-> 0, cors |-> Null, json |-> FALSE, body |-> Null]

\* new Response(null, {status: 200, headers: corsHeaders})
PreflightResponse == [status |-> 200, cors |-> corsHeaders, json |-> FALSE, body |-> Null]

\* new Response(JSON.stringify(obj), {status, headers: {...corsHeaders,
\* "Content-Type": "application/json"}})
JsonResponse(status, obj) ==
    [status |-> status, cors |-> corsHeaders, json |-> TRUE, body |-> obj]

\* an outer catch that names the field message
ServerErrorAsMessage(message) ==
    JsonResponse(500, [message |-> <<"Erreur serveur: ">> \o
                          (IF message # <<>> THEN message ELSE <<"Unknown error">>)])

\* the outer catch: {error: `Erreur serveur: ${error?.message || "Unknown error"}`}
ServerError(message) ==
    JsonResponse(500, [error |-> <<"Erreur serveur: ">> \o
                          (IF message # <<>> THEN message ELSE <<"Unknown error">>)])

\* the message of the SyntaxError JSON.parse throws on a text
SyntaxErrorMessage(text) == <<"Unexpected token in JSON: ">> \o text

\* the message of the TypeError thrown by a property read on null
NullReadMessage == <<"Cannot read properties of null (reading 'title')">>

----------------------------------------------------------------------------
(* Writing style and prompt *)

DefaultStyle == "Description detaillee et attractive"

\* personaStyles[persona_id], "" standing for undefined
personaStyles(pid, current) ==
    CASE pid = "minimalist" -> "Descriptions courtes, claires et efficaces. Style minimaliste avec uniquement l'essentiel."
      [] pid = "enthusiast" -> "Dynamique, positive et pleine d'energie ! Utilise des points d'exclamation et un ton enthousiaste."
      [] pid = "professional" -> "Experte, technique et detaillee. Descriptions precises et professionnelles."
      [] pid = "friendly" -> "Chaleureuse, accessible et decontractee. Ton amical comme entre amis."
      [] pid = "elegant" -> "Raffinee, sophistiquee et chic. Vocabulaire elegant et noble."
      [] pid = "eco_conscious" -> "Responsable avec focus sur la durabilite. Met en avant l'eco-responsabilite et la seconde vie des vetements."
      [] pid = "trendy" -> "Tendance et a la pointe de la mode. Utilise un vocabulaire fashion et actuel."
      [] pid = "storyteller" -> "Raconte une histoire autour de l'article. Cree une connexion emotionnelle avec le vetement."
      [] pid = "custom" -> current
      [] OTHER -> ""

\* lines 102-119: the style after the family_members lookup returned row
ResolveStyle(row, current) ==
    IF row.t # "row" THEN current
    ELSE IF row.writing_style # "" THEN row.writing_style
    ELSE IF row.persona_id # ""
    THEN (IF personaStyles(row.persona_id, current) # ""
          THEN personaStyles(row.persona_id, current) ELSE current)
    ELSE current

\* the lot test without the isLot flag
LotModeIgnoreFlag(b) ==
    /\ b.lotArticles.t = "array"
    /\ Len(b.lotArticles.a) > 0

\* isLot && lotArticles && lotArticles.length > 0
LotMode(b) ==
    /\ b.isLot
    /\ b.lotArticles.t = "array"
    /\ Len(b.lotArticles.a) > 0

\* the prompt: its mode and the values interpolated into the template
BuildPrompt(b, style) ==
    LET
        \* one line of articlesInfo
        ArticleLine(art, idx) ==
            <<idx, ". ", art.title, " - ", IF art.brand # "" THEN art.brand ELSE "Sans marque",
              " - Taille ", IF art.size # "" THEN art.size ELSE "N/A", " - ", art.price>>
    IN
    IF LotMode(b)
    THEN [mode |-> "lot",
          articlesInfo |-> [k \in 1..Len(b.lotArticles.a) |->
                               ArticleLine(b.lotArticles.a[k], k)],
          photos |-> Len(b.imageUrls.a),
          writingStyle |-> style]
    ELSE [mode |-> "single", articlesInfo |-> <<>>,
          photos |-> Len(b.imageUrls.a), writingStyle |-> style]

NoPrompt == [mode |-> "none", articlesInfo |-> <<>>, photos |-> 0, writingStyle |-> ""]

----------------------------------------------------------------------------
(* The handler *)

\* Array.prototype.unshift in the place of push
PushFront(list, e) == <<e>> \o list

\* Array.prototype.push
Push(list, e) == Append(list, e)

\* if (sellerId)
Truthy(v) == v.t = "string" /\ v.s # ""

\* !imageUrls || !Array.isArray(imageUrls) || imageUrls.length === 0
InvalidImageUrls(v) == v.t # "array" \/ Len(v.a) = 0

\* a check of userError alone
UserRejectedOnError(r) == r.kind = "error"

\* userError || !user
UserRejected(r) == r.kind # "user"

\* a pattern mismatch reported with the generic message
FormatErrorGeneric(url) == <<"Error processing image ", url>>

\* `Invalid storage URL format: ${url}`
FormatError(url) == <<"Invalid storage URL format: ", url>>

\* `Error processing image ${url}: ${imgError.message}`
ProcessingError(url, message) == <<"Error processing image ", url, ": ">> \o message

\* the whole list of failures
DetailsAll(errs) == errs

\* errors.slice(0, 3)
Details(errs) == SubSeq(errs, 1, Min(3, Len(errs)))

\* a gate that lets an empty batch through
AllFailedNever(ip) == FALSE

\* imageParts.length === 0
AllFailed(ip) == Len(ip) = 0

\* a call that carries the prompt only
CallPartsTextOnly(p, ip) == <<[text |-> p]>>

\* const parts = [{text: prompt}, ...imageParts]
CallParts(p, ip) == <<[text |-> p]>> \o ip

\* a catch block that tests for "API key" first
GeminiErrorMessageKeyFirst(message) ==
    IF Includes(message, "API key")
    THEN <<"Cle API Gemini invalide ou manquante. Verifiez GEMINI_API_KEY dans les secrets Supabase.">>
    ELSE IF Includes(message, "quota") \/ Includes(message, "RESOURCE_EXHAUSTED")
    THEN <<"Quota Gemini depasse. Veuillez reessayer plus tard ou activer la facturation sur Google Cloud.">>
    ELSE IF message # <<>>
    THEN <<"Erreur lors de l'analyse avec Gemini", ": ">> \o message
    ELSE <<"Erreur lors de l'analyse avec Gemini">>

\* the catch (geminiError) block: the message chosen for the error
GeminiErrorMessage(message) ==
    IF Includes(message, "quota") \/ Includes(message, "RESOURCE_EXHAUSTED")
    THEN <<"Quota Gemini depasse. Veuillez reessayer plus tard ou activer la facturation sur Google Cloud.">>
    ELSE IF Includes(message, "API key")
    THEN <<"Cle API Gemini invalide ou manquante. Verifiez GEMINI_API_KEY dans les secrets Supabase.">>
    ELSE IF message # <<>>
    THEN <<"Erreur lors de l'analyse avec Gemini", ": ">> \o message
    ELSE <<"Erreur lors de l'analyse avec Gemini">>

\* a catch block that answers with status 429
GeminiErrorResponse429(message) ==
    JsonResponse(429, [error |-> GeminiErrorMessage(message)])

GeminiErrorResponse(message) ==
    JsonResponse(500, [error |-> GeminiErrorMessage(message)])

\* a construction that defaults the missing keyword lists to []
AnalysisResultDefaulting(parsedResponse) ==
    [f \in ResultFields |->
        IF f \in {"seoKeywords", "hashtags", "searchTerms"} /\ f \notin DOMAIN parsedResponse
        THEN JArr(<<>>)
        ELSE Get(parsedResponse, f)]

\* const analysisResult = {title: parsedResponse.title, ...}
AnalysisResult(parsedResponse) ==
    [f \in ResultFields |-> Get(parsedResponse, f)]

\* a handler that falls back to an empty object when the text is not JSON
AiResponseLenient(o) ==
    CASE o.kind = "throws" -> GeminiErrorResponse(o.message)
      [] o.kind = "empty" ->
            JsonResponse(500, [error |-> <<"L'IA n'a pas pu analyser les images. Veuillez reessayer.">>])
      [] o.kind = "invalid" -> JsonResponse(200, Stringify(AnalysisResult(<<>>)))
      [] o.kind = "null" -> GeminiErrorResponse(NullReadMessage)
      [] OTHER -> JsonResponse(200, Stringify(AnalysisResult(o.value)))

\* lines 421-456 and the catch of 457-477: the response for an outcome of the call
AiResponse(o) ==
    CASE o.kind = "throws" -> GeminiErrorResponse(o.message)
      [] o.kind = "empty" ->
            JsonResponse(500, [error |-> <<"L'IA n'a pas pu analyser les images. Veuillez reessayer.">>])
      [] o.kind = "invalid" -> GeminiErrorResponse(SyntaxErrorMessage(o.text))
      [] o.kind = "null" -> GeminiErrorResponse(NullReadMessage)
      [] OTHER -> JsonResponse(200, Stringify(AnalysisResult(o.value)))

Finish(r) == /\ response' = r
             /\ pc' = "done"

\* a handler that tests the API key before the method
ReceiveKeyFirst ==
    /\ pc = "start"
    /\ IF ~GEMINI_API_KEY
       THEN Finish(JsonResponse(500, [error |-> <<"La cle API Gemini n'est pas configuree. Veuillez configurer GEMINI_API_KEY dans les secrets de votre projet Supabase.">>]))
       ELSE IF method = "OPTIONS"
       THEN Finish(PreflightResponse)
       ELSE IF ~authHeader
       THEN Finish(JsonResponse(401, [error |-> <<"Authorization header manquant">>]))
       ELSE pc' = "getUser" /\ UNCHANGED response
    /\ UNCHANGED <<method, GEMINI_API_KEY, authHeader, body, userResult,
                   familyMember, memberRow, writingStyle, i, filePath, imageParts,
                   errors, partIdx, errIdx, prompt, aiCalls, parts, aiReply,
                   downloads, bodyRead>>
    /\ UNCHANGED outside

\* lines 33-63: preflight, API key and Authorization header checks
Receive ==
    /\ pc = "start"
    /\ IF method = "OPTIONS"
       THEN Finish(PreflightResponse)
       ELSE IF ~GEMINI_API_KEY
       THEN Finish(JsonResponse(500, [error |-> <<"La cle API Gemini n'est pas configuree. Veuillez configurer GEMINI_API_KEY dans les secrets de votre projet Supabase.">>]))
       ELSE IF ~authHeader
       THEN Finish(JsonResponse(401, [error |-> <<"Authorization header manquant">>]))
       ELSE pc' = "getUser" /\ UNCHANGED response
    /\ UNCHANGED <<method, GEMINI_API_KEY, authHeader, body, userResult,
                   familyMember, memberRow, writingStyle, i, filePath, imageParts, errors,
                   partIdx, errIdx, prompt, aiCalls, parts, aiReply, downloads,
                   bodyRead>>
    /\ UNCHANGED outside

\* lines 75-88: await supabase.auth.getUser()
GetUser ==
    LET
        \* supabase.auth.getUser(): a user, an error, neither, or an exception
        UserResults ==
            {[kind |-> "user", id |-> "user-1"], [kind |-> "error"], [kind |-> "nouser"]}
                \cup {[kind |-> "throws", message |-> m] : m \in ExcMessages}
    IN
    /\ pc = "getUser"
    /\ \E r \in UserResults :
        /\ userResult' = r
        /\ IF r.kind = "throws"
           THEN Finish(ServerError(r.message))
           ELSE IF UserRejected(r)
           THEN Finish(JsonResponse(401, [error |-> <<"Utilisateur non authentifie">>]))
           ELSE pc' = "readBody" /\ UNCHANGED response
    /\ UNCHANGED <<method, GEMINI_API_KEY, authHeader, body,
                   familyMember, memberRow, writingStyle, i, filePath, imageParts, errors,
                   partIdx, errIdx, prompt, aiCalls, parts, aiReply, downloads,
                   bodyRead>>
    /\ UNCHANGED outside

\* line 90: await req.json(), then the branch on sellerId
ReadBody ==
    /\ pc = "readBody"
    /\ bodyRead' = TRUE
    /\ IF body.t = "notjson"
       THEN Finish(ServerError(SyntaxErrorMessage(<<"imageUrls=">>)))
       ELSE /\ pc' = IF Truthy(body.sellerId) THEN "lookupSeller" ELSE "validate"
            /\ UNCHANGED response
    /\ UNCHANGED <<method, GEMINI_API_KEY, authHeader, body, userResult,
                   familyMember, memberRow, writingStyle, i, filePath, imageParts, errors,
                   partIdx, errIdx, prompt, aiCalls, parts, aiReply, downloads>>
    /\ UNCHANGED outside

\* lines 94-120: the family_members lookup and the writing style
LookupSeller ==
    LET
        MemberRows ==
            LET
                PersonaIds ==
                    {"minimalist", "enthusiast", "professional", "friendly", "elegant",
                     "eco_conscious", "trendy", "storyteller"}
            IN
            {NoRow, MemberRow("Court et drole", "minimalist"), MemberRow("Court et drole", "")}
                \cup {MemberRow("", pid) : pid \in PersonaIds \cup {"custom", "casual", ""}}
        \* the owners of family_members rows; the authenticated user is "user-1"
        UserIds == {"user-1", "user-2"}
    IN
    /\ pc = "lookupSeller"
    /\ \E row \in MemberRows, owner \in UserIds :
        /\ memberRow' = [user_id |-> owner, row |-> row]
        /\ familyMember' = MaybeSingle(memberRow', userResult.id)
        /\ writingStyle' = ResolveStyle(familyMember', writingStyle)
    /\ pc' = "validate"
    /\ UNCHANGED <<method, GEMINI_API_KEY, authHeader, body, userResult,
                   i, filePath, imageParts, errors,
                   partIdx, errIdx, prompt, aiCalls, parts, aiReply, downloads,
                   bodyRead, response>>
    /\ UNCHANGED outside

\* lines 123-135: the imageUrls check
ValidateImages ==
    /\ pc = "validate"
    /\ IF InvalidImageUrls(body.imageUrls)
       THEN Finish(JsonResponse(400, [error |-> <<"Au moins une URL d'image est requise">>]))
       ELSE pc' = "loop" /\ UNCHANGED response
    /\ UNCHANGED <<method, GEMINI_API_KEY, authHeader, body, userResult,
                   familyMember, memberRow, writingStyle, i, filePath, imageParts, errors,
                   partIdx, errIdx, prompt, aiCalls, parts, aiReply, downloads,
                   bodyRead>>
    /\ UNCHANGED outside

\* a failure path that goes to the next URL without recording the failure
RecordErrorLost(errMsg) ==
    /\ errors' = errors
    /\ errIdx' = errIdx
    /\ i' = i + 1
    /\ pc' = "loop"

\* the per-image failure paths: push the message and go to the next URL
RecordError(errMsg) ==
    /\ errors' = Push(errors, errMsg)
    /\ errIdx' = Push(errIdx, i)
    /\ i' = i + 1
    /\ pc' = "loop"

\* lines 137-152: one URL of the loop up to the download
ProcessUrl ==
    LET
        \* new URL(url) throws a TypeError for a string that is not an absolute URL
        Parseable(url) == url # UrlNotAUrl
        InvalidUrlMessage == <<"Invalid URL">>
    IN
    /\ pc = "loop"
    /\ i <= Len(body.imageUrls.a)
    /\ LET url == body.imageUrls.a[i] IN
        IF ~Parseable(url)
        THEN RecordError(ProcessingError(url, InvalidUrlMessage)) /\ UNCHANGED filePath
        ELSE IF PathMatch(Pathname(url)) = <<>>
        THEN RecordError(FormatError(url)) /\ UNCHANGED filePath
        ELSE /\ filePath' = PathMatch(Pathname(url))
             /\ pc' = "download"
             /\ UNCHANGED <<errors, errIdx, i>>
    /\ UNCHANGED <<method, GEMINI_API_KEY, authHeader, body, userResult,
                   familyMember, memberRow, writingStyle, imageParts,
                   partIdx, prompt, aiCalls, parts, aiReply, downloads,
                   bodyRead, response>>
    /\ UNCHANGED outside

\* lines 154-163: await supabase.storage.from("article-photos").download(filePath)
Download ==
    LET
        \* supabase.storage.from("article-photos").download(filePath)
        DownloadOutcomes ==
            {[kind |-> "ok"], [kind |-> "nodata"],
             [kind |-> "error", message |-> <<"Object not found">>],
             [kind |-> "error", message |-> <<>>]}
                \cup {[kind |-> "throws", message |-> m] : m \in ExcMessages}
        \* `Failed to download ${filePath}: ${downloadError?.message || "Unknown error"}`
        DownloadError(path, message) ==
            <<"Failed to download ">> \o path \o <<": ">> \o
                (IF message # <<>> THEN message ELSE <<"Unknown error">>)
    IN
    /\ pc = "download"
    /\ downloads' = downloads + 1
    /\ \E o \in DownloadOutcomes :
        CASE o.kind = "ok" -> pc' = "arrayBuffer" /\ UNCHANGED <<errors, errIdx, i>>
          [] o.kind = "nodata" -> RecordError(DownloadError(filePath, <<>>))
          [] o.kind = "error" -> RecordError(DownloadError(filePath, o.message))
          [] OTHER -> RecordError(ProcessingError(body.imageUrls.a[i], o.message))
    /\ UNCHANGED <<method, GEMINI_API_KEY, authHeader, body, userResult,
                   familyMember, memberRow, writingStyle, filePath, imageParts,
                   partIdx, prompt, aiCalls, parts, aiReply,
                   bodyRead, response>>
    /\ UNCHANGED outside

\* lines 165-186: await fileData.arrayBuffer(), the encoding and the push
ReadBuffer ==
    LET
        \* the objects of the article-photos bucket: bytes and declared content type
        \* ("" when the backend declares none)
        FileData(path) ==
            IF path = <<"u1", "a.png">>
            THEN [bytes |-> <<137, 80, 78, 71>>, type |-> "image/png"]
            ELSE [bytes |-> <<255, 216>>, type |-> ""]
        \* fileData.arrayBuffer()
        BufferOutcomes ==
            {[kind |-> "ok"]} \cup {[kind |-> "throws", message |-> m] : m \in ExcMessages}
    IN
    /\ pc = "arrayBuffer"
    /\ \E o \in BufferOutcomes :
        IF o.kind = "ok"
        THEN /\ imageParts' = Push(imageParts, ImagePart(FileData(filePath)))
             /\ partIdx' = Push(partIdx, i)
             /\ i' = i + 1
             /\ pc' = "loop"
             /\ UNCHANGED <<errors, errIdx>>
        ELSE /\ RecordError(ProcessingError(body.imageUrls.a[i], o.message))
             /\ UNCHANGED <<imageParts, partIdx>>
    /\ UNCHANGED <<method, GEMINI_API_KEY, authHeader, body, userResult,
                   familyMember, memberRow, writingStyle, filePath,
                   prompt, aiCalls, parts, aiReply, downloads,
                   bodyRead, response>>
    /\ UNCHANGED outside

\* lines 194-366: after the loop, the empty-batch response or the prompt
Gate ==
    /\ pc = "loop"
    /\ i > Len(body.imageUrls.a)
    /\ IF AllFailed(imageParts)
       THEN /\ Finish(JsonResponse(400,
                        [error |-> <<"Impossible de charger les images depuis le stockage.">>,
                         details |-> Details(errors)]))
            /\ UNCHANGED prompt
       ELSE /\ prompt' = BuildPrompt(body, writingStyle)
            /\ pc' = "callAI"
            /\ UNCHANGED response
    /\ UNCHANGED <<method, GEMINI_API_KEY, authHeader, body, userResult,
                   familyMember, memberRow, writingStyle, i, filePath, imageParts, errors,
                   partIdx, errIdx, aiCalls, parts, aiReply, downloads,
                   bodyRead>>
    /\ UNCHANGED outside

\* lines 370-477: the generateContent call and the response built from its outcome
CallAI ==
    /\ pc = "callAI"
    /\ aiCalls' = aiCalls + 1
    /\ parts' = CallParts(prompt, imageParts)
    /\ \E o \in AiOutcomes :
        /\ aiReply' = o
        /\ Finish(AiResponse(o))
    /\ UNCHANGED <<method, GEMINI_API_KEY, authHeader, body, userResult,
                   familyMember, memberRow, writingStyle, i, filePath, imageParts, errors,
                   partIdx, errIdx, prompt, downloads, bodyRead>>
    /\ UNCHANGED outside

\* no second request, no function under study
NoParked == [t |-> "null"]
NoValue == [t |-> "null"]

Init ==
    /\ method \in {"OPTIONS", "POST"}
    /\ GEMINI_API_KEY \in BOOLEAN
    /\ authHeader \in BOOLEAN
    /\ body \in Bodies
    /\ pc = "start"
    /\ userResult = [kind |-> "none"]
    /\ familyMember = NoRow
    /\ writingStyle = DefaultStyle
    /\ i = 1
    /\ filePath = <<>>
    /\ imageParts = <<>>
    /\ errors = <<>>
    /\ partIdx = <<>>
    /\ errIdx = <<>>
    /\ prompt = NoPrompt
    /\ aiCalls = 0
    /\ parts = <<>>
    /\ aiReply = NoOutcome
    /\ downloads = 0
    /\ bodyRead = FALSE
    /\ response = NoResponse
    /\ memberRow = NoRow
    /\ parked = NoParked
    /\ input = NoValue
    /\ output = NoValue
    /\ stage = "idle"
    /\ NoPages

Next ==
    \/ Receive
    \/ GetUser
    \/ ReadBody
    \/ LookupSeller
    \/ ValidateImages
    \/ ProcessUrl
    \/ Download
    \/ ReadBuffer
    \/ Gate
    \/ CallAI

Spec == Init /\ [][Next]_vars

----------------------------------------------------------------------------
(* Properties of image ingestion *)

\* the request has a usable image list
HasImageList == body.t = "object" /\ ~InvalidImageUrls(body.imageUrls)

N == IF HasImageList THEN Len(body.imageUrls.a) ELSE 0

\* the for..of loop over imageUrls has processed every URL
LoopEnded == HasImageList /\ i > N /\ pc \in {"loop", "callAI", "done"}

Range(f) == {f[k] : k \in 1..Len(f)}

StrictlyIncreasing(f) == \A k \in 1..(Len(f) - 1) : f[k] < f[k + 1]

\* the URL is not parseable or its path does not match the storage pattern
Malformed(url) == url \notin {UrlA, UrlB}

\* the image part the code builds for a well-formed URL whose download succeeds
PartOf(url) ==
    IF url = UrlA
    THEN [inlineData |-> [mimeType |-> "image/png",
                          data |-> <<34, 21, 1, 14, 17, 48, 64, 64>>]]
    ELSE [inlineData |-> [mimeType |-> "image/jpeg", data |-> <<63, 61, 32, 64>>]]

\* C1: when the ingestion loop has ended, the number of image parts plus the
\* number of recorded failures equals the number N of URLs, and every input
\* position 1..N is the position of exactly one entry of exactly one list.
C1_Partition ==
    LoopEnded =>
        /\ Len(imageParts) + Len(errors) = N
        /\ Len(partIdx) = Len(imageParts)
        /\ Len(errIdx) = Len(errors)
        /\ \A k \in 1..N :
            Cardinality({m \in 1..Len(partIdx) : partIdx[m] = k})
                + Cardinality({m \in 1..Len(errIdx) : errIdx[m] = k}) = 1

\* a list that holds the same URL three times, of which one occurrence was
\* encoded, one failed in the download and one threw
C1_Witness ==
    /\ LoopEnded
    /\ body.imageUrls.a = <<UrlA, UrlA, UrlA>>
    /\ Len(imageParts) = 1
    /\ Len(errors) = 2
    /\ \E k \in 1..2 : errors[k][1] = "Failed to download "
    /\ \E k \in 1..2 : errors[k][1] = "Error processing image "

\* C2: if no image was encoded, the AI service is never called and no prompt is
\* built: the request ends with the 400 "Impossible de charger les images"
\* response.
C2_NoCallOnEmptyBatch ==
    (LoopEnded /\ Len(imageParts) = 0) =>
        /\ aiCalls = 0
        /\ prompt = NoPrompt
        /\ parts = <<>>
        /\ pc # "callAI"
        /\ pc = "done" =>
            /\ response.status = 400
            /\ response.body.error = <<"Impossible de charger les images depuis le stockage.">>

C2_Witness ==
    /\ LoopEnded
    /\ pc = "done"
    /\ N = 3
    /\ Len(imageParts) = 0
    /\ downloads = 2
    /\ response.status = 400

\* C3: a request of which at least one image was encoded goes on to the AI
\* call although other images failed, and the call carries the prompt
\* followed by exactly the encoded images, in input order.
C3_PartialFailureProceeds ==
    (LoopEnded /\ Len(imageParts) > 0) =>
        /\ pc \in {"loop", "callAI", "done"}
        /\ pc = "callAI" => prompt # NoPrompt /\ aiCalls = 0
        /\ pc = "done" =>
            /\ aiCalls = 1
            /\ aiReply # NoOutcome
            /\ Len(parts) = Len(imageParts) + 1
            /\ parts[1] = [text |-> prompt]
            /\ \A k \in 1..Len(imageParts) :
                /\ parts[k + 1] = imageParts[k]
                /\ parts[k + 1] = PartOf(body.imageUrls.a[partIdx[k]])

\* URL 2 is malformed, URLs 1 and 3 were encoded, and the call was made
C3_Witness ==
    /\ pc = "done"
    /\ body.t = "object"
    /\ body.imageUrls = JArr(<<UrlA, UrlNotAUrl, UrlB>>)
    /\ partIdx = <<1, 3>>
    /\ errIdx = <<2>>
    /\ aiCalls = 1
    /\ parts = <<[text |-> prompt], PartOf(UrlA), PartOf(UrlB)>>

\* the failure message names the URL, or the storage path taken from it
ErrorIsAbout(e, url) ==
    \/ e[2] = url
    \/ /\ e[1] = "Failed to download "
       /\ \/ url = UrlA /\ e[2] = "u1" /\ e[3] = "a.png"
          \/ url = UrlB /\ e[2] = "b.jpg"

\* a request that read its body and has a usable image list never ends before
\* the last URL and never ends in the outer catch
NeverAborts ==
    (HasImageList /\ bodyRead /\ pc = "done") =>
        /\ i > N
        /\ "error" \in DOMAIN response.body => response.body.error[1] # "Erreur serveur: "

C8_OrderPreserved ==
    /\ StrictlyIncreasing(partIdx)
    /\ StrictlyIncreasing(errIdx)
    /\ Len(partIdx) = Len(imageParts)
    /\ Len(errIdx) = Len(errors)
    /\ \A k \in 1..Len(imageParts) :
        imageParts[k] = PartOf(body.imageUrls.a[partIdx[k]])
    /\ \A k \in 1..Len(errors) :
        ErrorIsAbout(errors[k], body.imageUrls.a[errIdx[k]])

\* two failures of different URLs around one encoded image
C8_Witness ==
    /\ LoopEnded
    /\ body.imageUrls.a = <<UrlOtherBucket, UrlB, UrlA>>
    /\ errIdx = <<1, 3>>
    /\ partIdx = <<2>>
    /\ errors[1][2] = UrlOtherBucket
    /\ errors[2][1] = "Failed to download "
    /\ errors[2][2] = "u1"

----------------------------------------------------------------------------
(* Properties of the validation sequence *)

\* the Authorization header is missing or the lookup returned an error or no user
AuthError == ~authHeader \/ userResult.kind \in {"error", "nouser"}

\* the image list is absent, not an array or empty
ImageListError ==
    IF body.t = "object" THEN InvalidImageUrls(body.imageUrls) ELSE TRUE

\* no download and no AI call without an authenticated user
AuthBeforeWork ==
    (\/ downloads > 0
     \/ aiCalls > 0
     \/ bodyRead
     \/ pc \in {"readBody", "lookupSeller", "validate", "loop", "download",
                "arrayBuffer", "callAI"}) =>
        authHeader /\ userResult.kind = "user"

C6_InputErrorsAre4xx ==
    (pc = "done" /\ method = "POST") =>
        /\ (AuthError \/ ImageListError) => response.status \in {400, 401}
        /\ (AuthError /\ ~ImageListError) => response.status = 401
        /\ (ImageListError /\ ~AuthError) => response.status = 400

----------------------------------------------------------------------------
(* Properties of the AI call *)

\* C4: a 200 response with a JSON body is produced only for a reply that
\* holds all seven required fields as non-empty strings.
C4_RequiredFieldsChecked ==
    (pc = "done" /\ response.status = 200 /\ response.json) =>
        /\ aiReply.kind = "object"
        /\ \A f \in RequiredFields :
            /\ f \in DOMAIN aiReply.value
            /\ aiReply.value[f].t = "string"
            /\ aiReply.value[f].s # ""

\* C9: the AI service is called at most once per request, the request ends
\* with that call, and every failure of the call (thrown error, empty text,
\* text that is not a JSON object) is answered with status 500 and an error.
C9_SingleCallFailure500 ==
    /\ aiCalls <= 1
    /\ aiCalls = 1 => pc = "done"
    /\ (pc = "done" /\ aiReply.kind \in {"throws", "empty", "invalid", "null"}) =>
        /\ aiCalls = 1
        /\ response.status = 500
        /\ "error" \in DOMAIN response.body

\* the call threw a quota error
C9_Witness ==
    /\ pc = "done"
    /\ aiCalls = 1
    /\ aiReply = [kind |-> "throws", message |-> <<"429 ", "RESOURCE_EXHAUSTED">>]
    /\ response.status = 500

\* C10: a reply whose text is not valid JSON ends the request with status 500
\* and the error message built from the parse error, never with a 200 result
\* and never with a second call.
C10_InvalidJsonFatal ==
    aiReply.kind = "invalid" =>
        /\ pc = "done"
        /\ aiCalls = 1
        /\ response.status = 500
        /\ response.body =
            [error |-> <<"Erreur lors de l'analyse avec Gemini", ": ",
                         "Unexpected token in JSON: ", "{not json">>]

\* the reply "{not json" after two images were encoded
C10_Witness ==
    /\ pc = "done"
    /\ aiReply = [kind |-> "invalid", text |-> <<"{not json">>]
    /\ Len(imageParts) = 2
    /\ response.status = 500

----------------------------------------------------------------------------
(* Classification of AI-call errors, as a function of the message *)

\* longest error message, in fragments
MaxFragments == 3

\* the catch of getStructuredCoachAdvice: the message of the error it throws
CoachErrorMessage(message) ==
    IF Includes(message, "quota") \/ Includes(message, "RESOURCE_EXHAUSTED")
    THEN <<"Quota Gemini depasse. Veuillez reessayer plus tard.">>
    ELSE IF Includes(message, "API key")
    THEN <<"Cle API Gemini invalide. Verifiez votre configuration.">>
    ELSE <<"Impossible d'analyser l'annonce pour le moment.">>

\* the handler variables of a state in which no request is being handled
HandlerIdle ==
    /\ method = "POST"
    /\ GEMINI_API_KEY = TRUE
    /\ authHeader = FALSE
    /\ body = NotJson
    /\ pc = "idle"
    /\ userResult = [kind |-> "none"]
    /\ familyMember = NoRow
    /\ writingStyle = DefaultStyle
    /\ i = 1
    /\ filePath = <<>>
    /\ imageParts = <<>>
    /\ errors = <<>>
    /\ partIdx = <<>>
    /\ errIdx = <<>>
    /\ prompt = NoPrompt
    /\ aiCalls = 0
    /\ parts = <<>>
    /\ aiReply = NoOutcome
    /\ downloads = 0
    /\ bodyRead = FALSE
    /\ response = NoResponse
    /\ memberRow = NoRow
    /\ parked = NoParked

handlerVars ==
    <<method, GEMINI_API_KEY, authHeader, body, pc, userResult, familyMember,
      writingStyle, i, filePath, imageParts, errors, partIdx, errIdx, prompt,
      aiCalls, parts, aiReply, downloads, bodyRead, response, memberRow, parked>>

InitClassify ==
    LET
        Messages ==
            LET
                Fragments == {"quota", "RESOURCE_EXHAUSTED", "API key", "fetch failed"}
            IN
                    SeqsOf(Fragments, 0, MaxFragments)
    IN
    /\ HandlerIdle
    /\ input \in Messages
    /\ output = NoValue
    /\ stage = "start"
    /\ NoPages

\* the edge function's catch applied to an error with the message
ClassifyEdge ==
    /\ stage = "start"
    /\ output' = [edge |-> GeminiErrorResponse(input)]
    /\ stage' = "edge"
    /\ UNCHANGED <<input, handlerVars, pages>>

\* the coach's catch applied to the same error
ClassifyCoach ==
    /\ stage = "edge"
    /\ output' = [edge |-> output.edge, coach |-> CoachErrorMessage(input)]
    /\ stage' = "done"
    /\ UNCHANGED <<input, handlerVars, pages>>

NextClassify ==
    \/ ClassifyEdge
    \/ ClassifyCoach

SpecClassify == InitClassify /\ [][NextClassify]_vars

----------------------------------------------------------------------------
(* Error text in responses *)

\* the fragments of the messages of exceptions and errors raised inside the
\* handler by body parsing, the auth client, the storage download and the
\* decoding of an image
InternalFragments ==
    UNION {Range(m) : m \in ExcMessages}
        \cup {"Unexpected token in JSON: ", "imageUrls=", "Invalid URL", "Object not found"}

\* the fragments of every text of a response body
BodyFragments(b) ==
    (IF "error" \in DOMAIN b THEN Range(b.error) ELSE {})
        \cup (IF "details" \in DOMAIN b
              THEN UNION {Range(b.details[k]) : k \in 1..Len(b.details)}
              ELSE {})

\* C12: no raw internal error text crosses the response boundary: a response
\* that is not the answer to a failed AI call holds no text of an exception
\* raised by body parsing, the auth client, the storage download or the image
\* decoding, so that its body does not depend on such a message.
C12_NoInternalText ==
    (pc = "done" /\ aiCalls = 0) =>
        BodyFragments(response.body) \cap InternalFragments = {}

----------------------------------------------------------------------------
(* The 200 body *)

\* C13: for a reply that is a JSON object, the 200 body holds, for each of the
\* 16 fields of AnalysisResult, the reply's value unchanged when the reply has
\* the field and nothing when it has not; no other field of the reply is copied.
C13_FieldByField ==
    (pc = "done" /\ aiReply.kind = "object") =>
        /\ response.status = 200
        /\ response.json
        /\ DOMAIN response.body \subseteq
            {"title", "description", "brand", "category", "subcategory", "color",
             "material", "size", "condition", "season", "suggestedPeriod",
             "estimatedPrice", "seoKeywords", "hashtags", "searchTerms",
             "confidenceScore"}
        /\ \A f \in {"title", "description", "brand", "category", "subcategory", "color",
                     "material", "size", "condition", "season", "suggestedPeriod",
                     "estimatedPrice", "seoKeywords", "hashtags", "searchTerms",
                     "confidenceScore"} :
            IF f \in DOMAIN aiReply.value
            THEN f \in DOMAIN response.body /\ response.body[f] = aiReply.value[f]
            ELSE f \notin DOMAIN response.body

\* the reply with out-of-vocabulary, mistyped and null values and an extra field
C13_Witness ==
    /\ pc = "done"
    /\ aiReply.kind = "object"
    /\ DOMAIN aiReply.value =
        {"title", "description", "brand", "category", "color", "condition", "season",
         "estimatedPrice", "material", "size", "notes"}
    /\ response.status = 200
    /\ response.body.color = JStr("Turquoise")
    /\ response.body.estimatedPrice = JStr("15 EUR")
    /\ response.body.material = [t |-> "null"]
    /\ "hashtags" \notin DOMAIN response.body
    /\ "notes" \notin DOMAIN response.body

----------------------------------------------------------------------------
(* Error responses *)

\* C14: every response with a status other than 200 has a JSON body with a
\* non-empty text in the field error, and its status is 400, 401 or 500.
C14_ErrorBody ==
    (pc = "done" /\ response.status # 200) =>
        /\ response.status \in {400, 401, 500}
        /\ response.json
        /\ "error" \in DOMAIN response.body
        /\ Len(response.body.error) >= 1

\* the response of the outer catch to a body that is not JSON
C14_Witness ==
    /\ pc = "done"
    /\ body.t = "notjson"
    /\ bodyRead
    /\ response.status = 500
    /\ response.body.error[1] = "Erreur serveur: "

\* longest imageUrls list of the requests whose batch may fail as a whole
MaxBatch == 4

InitDetails ==
    LET
        \* an authenticated request with a list of up to MaxBatch URLs
        DetailBodies ==
            {MakeBody(JArr(l), DefaultExtras) :
                l \in SeqsOf({UrlA, UrlOtherBucket, UrlNotAUrl}, 1, MaxBatch)}
                \cup {MakeBody(JArr(<<UrlA>>),
                               [sellerId |-> JStr("seller-1"), isLot |-> FALSE,
                                lotArticles |-> Undefined])}
    IN
    /\ method = "POST"
    /\ GEMINI_API_KEY = TRUE
    /\ authHeader = TRUE
    /\ body \in DetailBodies
    /\ pc = "start"
    /\ userResult = [kind |-> "none"]
    /\ familyMember = NoRow
    /\ writingStyle = DefaultStyle
    /\ i = 1
    /\ filePath = <<>>
    /\ imageParts = <<>>
    /\ errors = <<>>
    /\ partIdx = <<>>
    /\ errIdx = <<>>
    /\ prompt = NoPrompt
    /\ aiCalls = 0
    /\ parts = <<>>
    /\ aiReply = NoOutcome
    /\ downloads = 0
    /\ bodyRead = FALSE
    /\ response = NoResponse
    /\ memberRow = NoRow
    /\ parked = NoParked
    /\ input = NoValue
    /\ output = NoValue
    /\ stage = "idle"
    /\ NoPages

SpecDetails == InitDetails /\ [][Next]_vars

\* C15: a details array holds at most 3 entries, which are the first failure
\* messages in input order, and it is present only on the 400 response of a
\* batch of which no image was encoded.
C15_DetailsCap ==
    pc = "done" =>
        /\ "details" \in DOMAIN response.body =>
            /\ Len(response.body.details) <= 3
            /\ Len(response.body.details) = IF Len(errors) < 3 THEN Len(errors) ELSE 3
            /\ \A k \in 1..Len(response.body.details) :
                /\ response.body.details[k] = errors[k]
                /\ ErrorIsAbout(response.body.details[k], body.imageUrls.a[errIdx[k]])
            /\ StrictlyIncreasing(errIdx)
            /\ Len(imageParts) = 0
            /\ response.status = 400
        /\ Len(imageParts) > 0 => "details" \notin DOMAIN response.body

\* four failures, of which three are reported
C15_Witness ==
    /\ pc = "done"
    /\ Len(errors) = 4
    /\ "details" \in DOMAIN response.body
    /\ Len(response.body.details) = 3
    /\ errors[4] \notin Range(response.body.details)

\* C16: an OPTIONS request is answered with status 200, the CORS headers and
\* no body, and nothing else is done for it (no user lookup, no body read, no
\* download, no AI call), whatever the API key, the Authorization header and
\* the body are.
C16_Preflight ==
    method = "OPTIONS" =>
        /\ pc \in {"start", "done"}
        /\ userResult.kind = "none"
        /\ ~bodyRead
        /\ downloads = 0
        /\ aiCalls = 0
        /\ pc = "done" =>
            /\ response.status = 200
            /\ response.body = [t |-> "null"]
            /\ response.cors =
                [AccessControlAllowOrigin |-> "*",
                 AccessControlAllowMethods |-> "GET, POST, PUT, DELETE, OPTIONS",
                 AccessControlAllowHeaders |-> "Content-Type, Authorization, X-Client-Info, Apikey"]

\* an OPTIONS request without API key, without header and with a body that is not JSON
C16_Witness ==
    /\ method = "OPTIONS"
    /\ pc = "done"
    /\ ~GEMINI_API_KEY
    /\ ~authHeader
    /\ body.t = "notjson"
    /\ response.status = 200

----------------------------------------------------------------------------
(* The chunked base64 encoding and its decoding *)

\* longest buffer and largest chunk size
MaxBytes == 4
MaxChunk == 3

\* atob: the binary string of a base64 text (alphabet positions, 64 for "=")
RECURSIVE atob(_)
atob(t) ==
    IF Len(t) < 4 THEN <<>>
    ELSE <<t[1] * 4 + (t[2] \div 16)>>
            \o (IF t[3] = 64 THEN <<>> ELSE <<(t[2] % 16) * 16 + (t[3] \div 4)>>)
            \o (IF t[4] = 64 THEN <<>> ELSE <<(t[3] % 4) * 64 + t[4]>>)
            \o atob(SubSeq(t, 5, Len(t)))

InitBase64 ==
    LET
        ByteValues == {0, 137, 255}
    IN
    /\ HandlerIdle
    /\ input \in [bytes : SeqsOf(ByteValues, 0, MaxBytes), chunk : 1..MaxChunk]
    /\ output = NoValue
    /\ stage = "start"
    /\ NoPages

\* lines 168-174 with the chunk size of the input
Encode ==
    /\ stage = "start"
    /\ output' = [text |-> btoa(BinaryString(input.bytes, input.chunk, 0))]
    /\ stage' = "encoded"
    /\ UNCHANGED <<input, handlerVars, pages>>

\* the decoding of generateSpeech applied to the text
Decode ==
    LET
        \* generateSpeech: bytes[i] = binaryString.charCodeAt(i) into a Uint8Array
        BytesOf(binaryString) == [k \in 1..Len(binaryString) |-> binaryString[k] % 256]
    IN
    /\ stage = "encoded"
    /\ output' = [text |-> output.text, bytes |-> BytesOf(atob(output.text))]
    /\ stage' = "decoded"
    /\ UNCHANGED <<input, handlerVars, pages>>

NextBase64 ==
    \/ Encode
    \/ Decode

SpecBase64 == InitBase64 /\ [][NextBase64]_vars

\* C17: decoding the chunk-wise encoding of a buffer gives the buffer back,
\* for every chunk size from 1 on and every length, and the chunk-wise
\* encoding is the encoding of the whole buffer: 4 characters for every 3
\* bytes started.
C17_RoundTrip ==
    /\ stage \in {"encoded", "decoded"} =>
        /\ output.text = btoa(input.bytes)
        /\ Len(output.text) = 4 * ((Len(input.bytes) + 2) \div 3)
    /\ stage = "decoded" => output.bytes = input.bytes

\* a buffer whose length is twice the chunk size
C17_Witness ==
    /\ stage = "decoded"
    /\ input = [bytes |-> <<137, 0, 255, 255>>, chunk |-> 2]
    /\ output.text = <<34, 16, 3, 63, 63, 48, 64, 64>>
    /\ output.bytes = <<137, 0, 255, 255>>

----------------------------------------------------------------------------
(* Two requests interleaved at their await points *)

\* the variables declared inside the handler, which every request has for itself
Locals ==
    [method |-> method, authHeader |-> authHeader, body |-> body, pc |-> pc,
     userResult |-> userResult, familyMember |-> familyMember,
     memberRow |-> memberRow, writingStyle |-> writingStyle, i |-> i,
     filePath |-> filePath, imageParts |-> imageParts, errors |-> errors,
     partIdx |-> partIdx, errIdx |-> errIdx, prompt |-> prompt,
     aiCalls |-> aiCalls, parts |-> parts, aiReply |-> aiReply,
     downloads |-> downloads, bodyRead |-> bodyRead, response |-> response]

\* the locals of a request that has just arrived
Arrived(m, h, b) ==
    [method |-> m, authHeader |-> h, body |-> b, pc |-> "start",
     userResult |-> [kind |-> "none"], familyMember |-> NoRow,
     memberRow |-> NoRow, writingStyle |-> DefaultStyle, i |-> 1,
     filePath |-> <<>>, imageParts |-> <<>>, errors |-> <<>>,
     partIdx |-> <<>>, errIdx |-> <<>>, prompt |-> NoPrompt,
     aiCalls |-> 0, parts |-> <<>>, aiReply |-> NoOutcome,
     downloads |-> 0, bodyRead |-> FALSE, response |-> NoResponse]

\* the positions at which the handler is suspended: before its first
\* statement, at an await, or after its return
AwaitPoints ==
    {"start", "getUser", "readBody", "lookupSeller", "download", "arrayBuffer",
     "callAI", "done"}

\* the image lists and options of the two requests
ConcBodyFirst ==
    MakeBody(JArr(<<UrlA>>),
             [sellerId |-> JStr("seller-1"), isLot |-> TRUE,
              lotArticles |-> JArr(<<Article1, Article2>>)])

InitConc ==
    LET
        ConcBodiesSecond ==
            {MakeBody(JArr(<<UrlNotAUrl, UrlB>>), DefaultExtras)}
    IN
    /\ GEMINI_API_KEY \in BOOLEAN
    /\ method = "POST"
    /\ authHeader = TRUE
    /\ body = ConcBodyFirst
    /\ pc = "start"
    /\ userResult = [kind |-> "none"]
    /\ familyMember = NoRow
    /\ writingStyle = DefaultStyle
    /\ i = 1
    /\ filePath = <<>>
    /\ imageParts = <<>>
    /\ errors = <<>>
    /\ partIdx = <<>>
    /\ errIdx = <<>>
    /\ prompt = NoPrompt
    /\ aiCalls = 0
    /\ parts = <<>>
    /\ aiReply = NoOutcome
    /\ downloads = 0
    /\ bodyRead = FALSE
    /\ response = NoResponse
    /\ memberRow = NoRow
    /\ parked \in {Arrived(m, h, b) :
                     m \in {"OPTIONS", "POST"}, h \in BOOLEAN, b \in ConcBodiesSecond}
    /\ input = NoValue
    /\ output = NoValue
    /\ stage = "idle"
    /\ NoPages

\* a switch with imageParts and errors declared outside the handler, shared by
\* the two requests
SwitchSharedLists ==
    /\ parked # NoParked
    /\ pc \in AwaitPoints
    /\ parked' = Locals
    /\ method' = parked.method
    /\ authHeader' = parked.authHeader
    /\ body' = parked.body
    /\ pc' = parked.pc
    /\ userResult' = parked.userResult
    /\ familyMember' = parked.familyMember
    /\ memberRow' = parked.memberRow
    /\ writingStyle' = parked.writingStyle
    /\ i' = parked.i
    /\ filePath' = parked.filePath
    /\ partIdx' = parked.partIdx
    /\ errIdx' = parked.errIdx
    /\ prompt' = parked.prompt
    /\ aiCalls' = parked.aiCalls
    /\ parts' = parked.parts
    /\ aiReply' = parked.aiReply
    /\ downloads' = parked.downloads
    /\ bodyRead' = parked.bodyRead
    /\ response' = parked.response
    /\ UNCHANGED <<GEMINI_API_KEY, imageParts, errors, input, output, stage, pages>>

\* the running request is suspended and the other one is resumed: each gets
\* its own locals back
Switch ==
    /\ parked # NoParked
    /\ pc \in AwaitPoints
    /\ parked' = Locals
    /\ method' = parked.method
    /\ authHeader' = parked.authHeader
    /\ body' = parked.body
    /\ pc' = parked.pc
    /\ userResult' = parked.userResult
    /\ familyMember' = parked.familyMember
    /\ memberRow' = parked.memberRow
    /\ writingStyle' = parked.writingStyle
    /\ i' = parked.i
    /\ filePath' = parked.filePath
    /\ imageParts' = parked.imageParts
    /\ errors' = parked.errors
    /\ partIdx' = parked.partIdx
    /\ errIdx' = parked.errIdx
    /\ prompt' = parked.prompt
    /\ aiCalls' = parked.aiCalls
    /\ parts' = parked.parts
    /\ aiReply' = parked.aiReply
    /\ downloads' = parked.downloads
    /\ bodyRead' = parked.bodyRead
    /\ response' = parked.response
    /\ UNCHANGED <<GEMINI_API_KEY, input, output, stage, pages>>

NextConc ==
    \/ Receive
    \/ GetUser
    \/ ReadBody
    \/ LookupSeller
    \/ ValidateImages
    \/ ProcessUrl
    \/ Download
    \/ ReadBuffer
    \/ Gate
    \/ CallAI
    \/ Switch

SpecConc == InitConc /\ [][NextConc]_vars

\* the response the handler gives a request on its own, from the request's
\* inputs and from what its own lookups, downloads and AI call returned
AloneResponse(l) ==
    IF l.method = "OPTIONS" THEN PreflightResponse
    ELSE IF ~GEMINI_API_KEY
    THEN JsonResponse(500, [error |-> <<"La cle API Gemini n'est pas configuree. Veuillez configurer GEMINI_API_KEY dans les secrets de votre projet Supabase.">>])
    ELSE IF ~l.authHeader
    THEN JsonResponse(401, [error |-> <<"Authorization header manquant">>])
    ELSE IF l.userResult.kind = "throws" THEN ServerError(l.userResult.message)
    ELSE IF l.userResult.kind # "user"
    THEN JsonResponse(401, [error |-> <<"Utilisateur non authentifie">>])
    ELSE IF l.body.t = "notjson" THEN ServerError(SyntaxErrorMessage(<<"imageUrls=">>))
    ELSE IF InvalidImageUrls(l.body.imageUrls)
    THEN JsonResponse(400, [error |-> <<"Au moins une URL d'image est requise">>])
    ELSE IF Len(l.imageParts) = 0
    THEN JsonResponse(400,
             [error |-> <<"Impossible de charger les images depuis le stockage.">>,
              details |-> Details(l.errors)])
    ELSE AiResponse(l.aiReply)

\* the locals of a request hold nothing but what its own inputs and its own
\* lookups, downloads and AI call produced
OwnStateOnly(l) ==
    /\ Len(l.partIdx) = Len(l.imageParts)
    /\ Len(l.errIdx) = Len(l.errors)
    /\ Len(l.imageParts) + Len(l.errors) = l.i - 1
    /\ \A k \in 1..Len(l.imageParts) :
        l.imageParts[k] = PartOf(l.body.imageUrls.a[l.partIdx[k]])
    /\ \A k \in 1..Len(l.errors) :
        ErrorIsAbout(l.errors[k], l.body.imageUrls.a[l.errIdx[k]])
    /\ l.writingStyle =
        IF l.memberRow = NoRow THEN DefaultStyle
        ELSE ResolveStyle(MaybeSingle(l.memberRow, l.userResult.id), DefaultStyle)
    /\ l.prompt \in {NoPrompt, BuildPrompt(l.body, l.writingStyle)}
    /\ l.parts \in {<<>>, CallParts(l.prompt, l.imageParts)}
    /\ l.aiCalls = 1 => l.parts # <<>> /\ l.prompt # NoPrompt
    /\ l.pc = "done" => l.response = AloneResponse(l)
    /\ l.pc # "done" => l.response = NoResponse

\* C18: when two requests are interleaved at their await points, each one's
\* image parts, errors, writing style, prompt and call parts come from its own
\* URLs, body and lookups only, and each one's response is the response the
\* handler gives that request alone.
C18_NoInterference ==
    /\ OwnStateOnly(Locals)
    /\ parked # NoParked => OwnStateOnly(parked)

\* both requests have ended after being interleaved inside their loops: the
\* first with a 200 from the image of UrlA, the second with a 200 from the image
\* of UrlB after recording the failure of its other URL
C18_Witness ==
    /\ parked # NoParked
    /\ {pc, parked.pc} = {"done"}
    /\ {body, parked.body}
         = {ConcBodyFirst, MakeBody(JArr(<<UrlNotAUrl, UrlB>>), DefaultExtras)}
    /\ response.status = 200
    /\ parked.response.status = 200
    /\ imageParts # parked.imageParts
    /\ Len(errors) + Len(parked.errors) = 1

----------------------------------------------------------------------------
(* Prompt mode *)

\* the prompt has been built
PromptBuilt == pc \in {"callAI", "done"} /\ prompt # NoPrompt

\* the body asks for a lot: isLot is truthy and lotArticles is a non-empty list
AsksForLot ==
    /\ body.isLot
    /\ body.lotArticles \notin {Undefined, JArr(<<>>)}

\* C19: once the prompt is built, it is the lot prompt exactly when isLot is
\* truthy and lotArticles is a non-empty list; the lot prompt then holds one
\* numbered line per article in input order, with 'Sans marque' and 'N/A' for
\* a missing brand and size; otherwise it is the single-item prompt; and no
\* step changes the request body, lotArticles included.
C19_PromptMode ==
    /\ [](PromptBuilt =>
            IF AsksForLot
            THEN /\ prompt.mode = "lot"
                 /\ body.lotArticles = JArr(<<Article1, Article2>>)
                 /\ prompt.articlesInfo =
                      << <<1, ". ", "Robe", " - ", "Zara", " - Taille ", "M", " - ", 12>>,
                         <<2, ". ", "Pull", " - ", "Sans marque", " - Taille ", "N/A",
                           " - ", 8>> >>
            ELSE /\ prompt.mode = "single"
                 /\ prompt.articlesInfo = <<>>)
    /\ [][body' = body]_vars

\* a lot request with two articles, the second without brand and size, has
\* reached the AI call with the lot prompt
C19_Witness ==
    /\ pc = "done"
    /\ aiCalls = 1
    /\ body.isLot
    /\ body.lotArticles = JArr(<<Article1, Article2>>)
    /\ prompt.mode = "lot"
    /\ Len(prompt.articlesInfo) = 2

\* isLot with an empty lotArticles reached the AI call with the single prompt
C19_WitnessEmptyLot ==
    /\ pc = "done"
    /\ aiCalls = 1
    /\ body.isLot
    /\ body.lotArticles = JArr(<<>>)
    /\ prompt.mode = "single"

----------------------------------------------------------------------------
(* Writing style *)

\* the fixed style of each of the eight named personas
NamedStyle(pid) ==
    CASE pid = "minimalist" -> "Descriptions courtes, claires et efficaces. Style minimaliste avec uniquement l'essentiel."
      [] pid = "enthusiast" -> "Dynamique, positive et pleine d'energie ! Utilise des points d'exclamation et un ton enthousiaste."
      [] pid = "professional" -> "Experte, technique et detaillee. Descriptions precises et professionnelles."
      [] pid = "friendly" -> "Chaleureuse, accessible et decontractee. Ton amical comme entre amis."
      [] pid = "elegant" -> "Raffinee, sophistiquee et chic. Vocabulaire elegant et noble."
      [] pid = "eco_conscious" -> "Responsable avec focus sur la durabilite. Met en avant l'eco-responsabilite et la seconde vie des vetements."
      [] pid = "trendy" -> "Tendance et a la pointe de la mode. Utilise un vocabulaire fashion et actuel."
      [] pid = "storyteller" -> "Raconte une histoire autour de l'article. Cree une connexion emotionnelle avec le vetement."

\* the style lookup, if any, is over
StyleResolved ==
    /\ bodyRead
    /\ body.t = "object"
    /\ pc \in {"validate", "loop", "download", "arrayBuffer", "callAI", "done"}

\* the family member whose id is sellerId exists and belongs to the caller
OwnMember ==
    /\ Truthy(body.sellerId)
    /\ memberRow.row # NoRow
    /\ memberRow.user_id = userResult.id

ExpectedStyle ==
    IF ~OwnMember THEN DefaultStyle
    ELSE IF memberRow.row.writing_style # "" THEN memberRow.row.writing_style
    ELSE IF memberRow.row.persona_id \in
              {"minimalist", "enthusiast", "professional", "friendly", "elegant",
               "eco_conscious", "trendy", "storyteller"}
    THEN NamedStyle(memberRow.row.persona_id)
    ELSE DefaultStyle

C20_WitnessOtherOwner ==
    /\ PromptBuilt
    /\ Truthy(body.sellerId)
    /\ memberRow.row = MemberRow("Court et drole", "minimalist")
    /\ memberRow.user_id = "user-2"
    /\ prompt.writingStyle = DefaultStyle

----------------------------------------------------------------------------
(* The browser application *)

\* the variables of the edge function and of the function studies
server == <<handlerVars, input, output, stage>>

\* the browser application is followed without a request to the edge function
NoServer ==
    /\ HandlerIdle
    /\ input = NoValue
    /\ output = NoValue
    /\ stage = "idle"

----------------------------------------------------------------------------
(* SignupPage *)

\* number of submissions of the signup form followed
MaxSubmits == 3

\* what the user may type into a password field
Passwords == {"", "abc", "abcde", "abcdef", "ABCDEF", "abcdefgh"}

\* the mounted page: lines 10-15, handleSubmit not running
InitSignup ==
    /\ NoServer
    /\ signup = [mounted |-> TRUE, email |-> "", password |-> "",
                 confirmPassword |-> "", loading |-> FALSE, error |-> "",
                 success |-> FALSE, pc |-> "form", calls |-> <<>>, submits |-> 0]
    /\ onboarding = Unmounted
    /\ team = Unmounted
    /\ agent = Unmounted
    /\ route = Unmounted

\* the form is rendered (line 53: success ? ... : form)
FormShown == signup.mounted /\ ~signup.success

\* onChange of the three inputs
SetEmail ==
    LET
        Emails == {"vous@exemple.com"}
    IN
    /\ FormShown
    /\ \E v \in Emails \cup {""} :
        /\ v # signup.email
        /\ signup' = [signup EXCEPT !.email = v]
    /\ UNCHANGED <<server, onboarding, team, agent, route>>

SetPassword ==
    /\ FormShown
    /\ \E v \in Passwords :
        /\ v # signup.password
        /\ signup' = [signup EXCEPT !.password = v]
    /\ UNCHANGED <<server, onboarding, team, agent, route>>

SetConfirmPassword ==
    /\ FormShown
    /\ \E v \in Passwords :
        /\ v # signup.confirmPassword
        /\ signup' = [signup EXCEPT !.confirmPassword = v]
    /\ UNCHANGED <<server, onboarding, team, agent, route>>

\* a check of handleSubmit without the length test
ValidationErrorNoLength(password, confirmPassword) ==
    IF password # confirmPassword
    THEN "Les mots de passe ne correspondent pas"
    ELSE ""

\* lines 28-36: the message of the failed check, "" when both checks pass
ValidationError(password, confirmPassword) ==
    IF password # confirmPassword
    THEN "Les mots de passe ne correspondent pas"
    ELSE IF Len(password) < 6
    THEN "Le mot de passe doit contenir au moins 6 caracteres"
    ELSE ""

\* lines 23-40: handleSubmit up to its await; the three inputs are required
\* and the button is disabled while loading
Submit ==
    /\ FormShown
    /\ signup.pc = "form"
    /\ ~signup.loading
    /\ signup.email # "" /\ signup.password # "" /\ signup.confirmPassword # ""
    /\ signup.submits < MaxSubmits
    /\ LET msg == ValidationError(signup.password, signup.confirmPassword) IN
        IF msg # ""
        THEN signup' = [signup EXCEPT !.error = msg, !.success = FALSE,
                                      !.submits = @ + 1]
        ELSE signup' = [signup EXCEPT !.error = "", !.success = FALSE,
                                      !.loading = TRUE, !.pc = "awaitSignUp",
                                      !.submits = @ + 1,
                                      !.calls = Append(@, [email |-> signup.email,
                                                           password |-> signup.password])]
    /\ UNCHANGED <<server, onboarding, team, agent, route>>

\* lines 40-48: signUp resolves
SignUpReturns ==
    LET
        \* what signUp resolves to: { error } with error null or an error with a message
        SignUpOutcomes ==
            {[error |-> Null], [error |-> [message |-> "User already registered"]]}
    IN
    /\ signup.mounted
    /\ signup.pc = "awaitSignUp"
    /\ \E o \in SignUpOutcomes :
        IF o.error # Null
        THEN signup' = [signup EXCEPT !.error = o.error.message, !.loading = FALSE,
                                      !.pc = "form"]
        ELSE signup' = [signup EXCEPT !.success = TRUE, !.loading = FALSE,
                                      !.pc = "form"]
    /\ UNCHANGED <<server, onboarding, team, agent, route>>

NextSignup ==
    \/ SetEmail
    \/ SetPassword
    \/ SetConfirmPassword
    \/ Submit
    \/ SignUpReturns

SpecSignup == InitSignup /\ [][NextSignup]_vars

\* the step is a run of handleSubmit up to its return or its await
SubmitStep == signup'.submits = signup.submits + 1

\* C21: a submission with password # confirmPassword sets the mismatch message,
\* one with equal passwords shorter than 6 characters sets the length message,
\* and both send no signUp request, leave success false and loading false; only
\* a submission with equal passwords of at least 6 characters calls signUp, once,
\* with the email and password typed; when no submission is running loading is
\* false; success and a non-empty error are never both set.
C21_SignupValidation ==
    /\ [](/\ signup.pc = "form" => ~signup.loading
          /\ ~(signup.success /\ signup.error # "")
          /\ \A k \in 1..Len(signup.calls) : Len(signup.calls[k].password) >= 6)
    /\ [][/\ SubmitStep =>
               IF signup.password # signup.confirmPassword
               THEN /\ signup'.error = "Les mots de passe ne correspondent pas"
                    /\ signup'.calls = signup.calls
                    /\ ~signup'.success /\ ~signup'.loading
               ELSE IF Len(signup.password) < 6
               THEN /\ signup'.error = "Le mot de passe doit contenir au moins 6 caracteres"
                    /\ signup'.calls = signup.calls
                    /\ ~signup'.success /\ ~signup'.loading
               ELSE /\ signup'.calls = Append(signup.calls,
                                              [email |-> signup.email,
                                               password |-> signup.password])
                    /\ signup'.error = ""
          /\ signup'.calls # signup.calls => SubmitStep]_vars

\* a mismatch of two short passwords was answered with the mismatch message,
\* after an earlier submission was sent and rejected by the service
C21_Witness ==
    /\ signup.mounted
    /\ signup.pc = "form"
    /\ Len(signup.calls) = 1
    /\ signup.submits >= 2
    /\ signup.password = "abc"
    /\ signup.confirmPassword = "abcde"
    /\ signup.error = "Les mots de passe ne correspondent pas"

\* equal passwords of five characters were answered with the length message
C21_WitnessShort ==
    /\ signup.mounted
    /\ signup.password = "abcde"
    /\ signup.confirmPassword = "abcde"
    /\ signup.calls = <<>>
    /\ signup.error = "Le mot de passe doit contenir au moins 6 caracteres"

----------------------------------------------------------------------------
(* OnboardingPage and TeamStep *)

\* latest value of Date.now() followed, in steps after the page was opened;
\* every added member takes one later value
MaxClock == 2

\* number of runs of handleComplete followed
MaxRuns == 3

\* member ids: 'main' and `member-${Date.now()}`
MainId == <<"main">>
NewMemberId(now) == <<"member-", now>>

\* TeamStep.tsx lines 23-27
mainMember(mainUserName) ==
    [id |-> MainId, display_name |-> mainUserName, is_default |-> TRUE]

IdsOf(members) == {members[k].id : k \in 1..Len(members)}

\* members.filter((m) => m.id !== id)
FilterOut(members, id) ==
    SelectSeq(members, LAMBDA m : m.id # id)

\* the page as opened by a signed-in user: lines 15-20, and the tables of
\* that user
InitOnboarding ==
    LET
        \* the user_profiles row of a user who has not finished the onboarding
        NewProfile == [onboarding_complet |-> FALSE, default_seller_id |-> 0,
                       custom_persona_id |-> 0, name |-> ""]
    IN
    /\ NoServer
    /\ signup = Unmounted
    /\ agent = Unmounted
    /\ route = Unmounted
    /\ team = Unmounted
    /\ onboarding =
         [mounted |-> TRUE, user |-> [id |-> "user-1"], currentStep |-> "profile",
          loading |-> FALSE, error |-> Null, profileData |-> Null,
          personaData |-> Null, teamData |-> Null,
          pc |-> "idle", sellersToCreate |-> <<>>, k |-> 1,
          defaultSellerId |-> 0, customPersonaId |-> 0,
          family_members |-> <<>>, custom_personas |-> <<>>,
          user_profiles |-> NewProfile,
          runs |-> 0, failed |-> FALSE, location |-> "/onboarding"]

\* lines 26-29
handleProfileNext ==
    LET
        \* what ProfileStep passes to onNext (the name; the sizes and the age are
        \* copied to the rows without being tested)
        ProfileDatas == {[name |-> "Ana"]}
    IN
    /\ onboarding.mounted
    /\ onboarding.currentStep = "profile"
    /\ \E data \in ProfileDatas :
        onboarding' = [onboarding EXCEPT !.profileData = data,
                                         !.currentStep = "persona"]
    /\ UNCHANGED <<server, signup, team, agent, route>>

\* TeamStep.tsx lines 29-35: the state of a TeamStep that is mounted
MountTeam(mainUserName, initialData) ==
    [mounted |-> TRUE,
     members |-> IF initialData # Null THEN initialData.members
                 ELSE <<mainMember(mainUserName)>>,
     defaultMemberId |-> IF initialData # Null THEN initialData.defaultMemberId
                         ELSE MainId,
     newMemberName |-> "",
     now |-> 0]

\* lines 31-39: handlePersonaNext and handlePersonaSkip; the team step is
\* rendered next
handlePersonaNext ==
    LET
        \* what PersonaStep passes to onNext: a named persona or a custom persona
        PersonaDatas ==
            {[personaId |-> "minimalist", personaWritingStyle |-> "Court et clair",
              customPersonaName |-> "", customPersonaStyle |-> ""],
             [personaId |-> "", personaWritingStyle |-> "",
              customPersonaName |-> "Moi", customPersonaStyle |-> "Drole"]}
    IN
    /\ onboarding.mounted
    /\ onboarding.currentStep = "persona"
    /\ \E data \in PersonaDatas :
        onboarding' = [onboarding EXCEPT !.personaData = data,
                                         !.currentStep = "team"]
    /\ team' = MountTeam(onboarding.profileData.name, onboarding.teamData)
    /\ UNCHANGED <<server, signup, agent, route>>

handlePersonaSkip ==
    /\ onboarding.mounted
    /\ onboarding.currentStep = "persona"
    /\ onboarding' = [onboarding EXCEPT !.personaData = Null,
                                        !.currentStep = "team"]
    /\ team' = MountTeam(onboarding.profileData.name, onboarding.teamData)
    /\ UNCHANGED <<server, signup, agent, route>>

\* TeamStep.tsx line 119: onChange of the new member field
SetNewMemberName ==
    LET
        \* what the user may type into the new member field
        MemberNames == {"", "  ", "Lea", " Ana "}
    IN
    /\ team.mounted
    /\ \E v \in MemberNames :
        /\ v # team.newMemberName
        /\ team' = [team EXCEPT !.newMemberName = v]
    /\ UNCHANGED <<server, signup, onboarding, agent, route>>

\* TeamStep.tsx lines 37-48
handleAddMember(t, now) ==
    LET
        \* String.prototype.trim on the names considered
        Trim(name) ==
            CASE name = "  " -> ""
              [] name = " Ana " -> "Ana"
              [] OTHER -> name
    IN
    IF Trim(t.newMemberName) = "" THEN t
    ELSE [t EXCEPT !.members = Append(@, [id |-> NewMemberId(now),
                                          display_name |-> Trim(t.newMemberName),
                                          is_default |-> FALSE]),
                   !.newMemberName = "",
                   !.now = now]

\* a removal that leaves the default on the removed member
handleRemoveMemberKeepDefault(t, id) ==
    IF id = MainId THEN t
    ELSE [t EXCEPT !.members = FilterOut(@, id)]

\* TeamStep.tsx lines 50-58
handleRemoveMember(t, id) ==
    IF id = MainId THEN t
    ELSE [t EXCEPT !.members = FilterOut(@, id),
                   !.defaultMemberId = IF @ = id THEN MainId ELSE @]

\* the Ajouter button or Enter in the field, at a later Date.now()
AddMember ==
    /\ team.mounted
    /\ team.now < MaxClock
    /\ \E now \in (team.now + 1)..MaxClock :
        team' = handleAddMember(team, now)
    /\ team' # team
    /\ UNCHANGED <<server, signup, onboarding, agent, route>>

\* the bin button of a member
RemoveMember ==
    /\ team.mounted
    /\ \E id \in IdsOf(team.members) :
        team' = handleRemoveMember(team, id)
    /\ team' # team
    /\ UNCHANGED <<server, signup, onboarding, agent, route>>

\* TeamStep.tsx line 93: the radio of a member
SelectDefault ==
    /\ team.mounted
    /\ \E id \in IdsOf(team.members) :
        /\ id # team.defaultMemberId
        /\ team' = [team EXCEPT !.defaultMemberId = id]
    /\ UNCHANGED <<server, signup, onboarding, agent, route>>

\* TeamStep.tsx lines 60-66 and lines 41-44: Suivant
handleTeamNext ==
    /\ team.mounted
    /\ onboarding.currentStep = "team"
    /\ onboarding' = [onboarding EXCEPT
                        !.teamData = [members |-> team.members,
                                      defaultMemberId |-> team.defaultMemberId],
                        !.currentStep = "completion"]
    /\ team' = Unmounted
    /\ UNCHANGED <<server, signup, agent, route>>

\* lines 46-60: Passer cette etape
handleTeamSkip ==
    /\ team.mounted
    /\ onboarding.currentStep = "team"
    /\ onboarding' = [onboarding EXCEPT
                        !.teamData = IF onboarding.profileData # Null
                                     THEN [members |-> <<mainMember(onboarding.profileData.name)>>,
                                           defaultMemberId |-> MainId]
                                     ELSE @,
                        !.currentStep = "completion"]
    /\ team' = Unmounted
    /\ UNCHANGED <<server, signup, agent, route>>

\* what a query of the data store resolves to: its data, or an error
DbOutcomes == {"ok", "error"}

\* line 96: member.is_default || member.id === teamData?.defaultMemberId
IsDefaultMember(member, teamData) ==
    \/ member.is_default
    \/ teamData # Null /\ member.id = teamData.defaultMemberId

\* line 87
IsMainUser(member, profileData) ==
    member.id = MainId \/ member.display_name = profileData.name

\* lines 89-105: the row to insert for a member (the columns copied from the
\* profile without a test are left out); member_id records the member's id
FamilyMemberData(member, o) ==
    [user_id |-> o.user.id,
     name |-> member.display_name,
     persona_id |-> IF IsMainUser(member, o.profileData) /\ o.personaData # Null
                       /\ o.personaData.personaId # ""
                    THEN o.personaData.personaId ELSE "casual",
     is_default |-> IsDefaultMember(member, o.teamData),
     writing_style |->
        IF IsMainUser(member, o.profileData) /\ o.personaData # Null
        THEN (IF o.personaData.personaId # "" /\ o.personaData.personaWritingStyle # ""
              THEN o.personaData.personaWritingStyle
              ELSE o.personaData.customPersonaStyle)
        ELSE "",
     member_id |-> member.id]

\* the request sent once the sellers are done: lines 121-136 or 138-164
AfterSellers(o) ==
    LET
        \* line 123: a custom persona is to be inserted
        HasCustomPersona(personaData) ==
            /\ personaData # Null
            /\ personaData.personaId = ""
            /\ personaData.customPersonaName # ""
    IN
    IF HasCustomPersona(o.personaData) THEN "insertPersona" ELSE "upsert"

\* a catch block that leaves the loading overlay on
FailCompleteStillLoading(o) ==
    [o EXCEPT !.error = "Une erreur est survenue. Veuillez reessayer.",
              !.pc = "idle", !.failed = TRUE]

\* lines 171-175: the catch block
FailComplete(o) ==
    [o EXCEPT !.error = "Une erreur est survenue. Veuillez reessayer.",
              !.loading = FALSE, !.pc = "idle", !.failed = TRUE]

\* the button of CompletionStep is rendered and not covered by the overlay
CanComplete ==
    /\ onboarding.mounted
    /\ onboarding.currentStep = "completion"
    /\ onboarding.profileData # Null
    /\ ~onboarding.loading
    /\ onboarding.pc = "idle"

\* the session ends: useAuth gives no user from now on
SessionEnds ==
    /\ CanComplete
    /\ onboarding.user # Null
    /\ onboarding' = [onboarding EXCEPT !.user = Null]
    /\ UNCHANGED <<server, signup, team, agent, route>>

\* lines 62-74: handleComplete up to the query of the existing sellers
handleComplete ==
    /\ CanComplete
    /\ onboarding.runs < MaxRuns
    /\ IF onboarding.user = Null \/ onboarding.profileData = Null
       THEN onboarding' = [onboarding EXCEPT !.runs = @ + 1]
       ELSE onboarding' = [onboarding EXCEPT !.runs = @ + 1, !.loading = TRUE,
                                             !.error = Null, !.failed = FALSE,
                                             !.defaultSellerId = 0,
                                             !.customPersonaId = 0,
                                             !.pc = "select"]
    /\ UNCHANGED <<server, signup, team, agent, route>>

\* lines 71-86: the query resolves; the loop starts or is skipped
SellersSelected ==
    LET
        \* line 76: !existingSellers || existingSellers.length === 0
        NoExistingSellers(o, outcome) ==
            outcome = "error" \/ Len(o.family_members) = 0
    IN
    /\ onboarding.mounted
    /\ onboarding.pc = "select"
    /\ \E outcome \in DbOutcomes :
        IF NoExistingSellers(onboarding, outcome)
        THEN LET sellersToCreate ==
                    IF onboarding.teamData # Null THEN onboarding.teamData.members
                    ELSE <<mainMember(onboarding.profileData.name)>>
             IN onboarding' = [onboarding EXCEPT
                                 !.sellersToCreate = sellersToCreate,
                                 !.k = 1,
                                 !.pc = IF Len(sellersToCreate) > 0
                                        THEN "insertSeller"
                                        ELSE AfterSellers(onboarding)]
        ELSE onboarding' = [onboarding EXCEPT !.pc = AfterSellers(onboarding)]
    /\ UNCHANGED <<server, signup, team, agent, route>>

\* lines 107-117: the insert of one member resolves
SellerInserted ==
    /\ onboarding.mounted
    /\ onboarding.pc = "insertSeller"
    /\ \E outcome \in DbOutcomes :
        IF outcome = "error" THEN onboarding' = FailComplete(onboarding)
        ELSE LET member == onboarding.sellersToCreate[onboarding.k]
                 id == Len(onboarding.family_members) + 1
                 newSeller == [id |-> id] @@ FamilyMemberData(member, onboarding)
             IN onboarding' = [onboarding EXCEPT
                    !.family_members = Append(@, newSeller),
                    !.defaultSellerId =
                        IF IsDefaultMember(member, onboarding.teamData)
                        THEN newSeller.id ELSE @,
                    !.k = @ + 1,
                    !.pc = IF onboarding.k < Len(onboarding.sellersToCreate)
                           THEN "insertSeller" ELSE AfterSellers(onboarding)]
    /\ UNCHANGED <<server, signup, team, agent, route>>

\* lines 124-135: the insert of the custom persona resolves
PersonaInserted ==
    /\ onboarding.mounted
    /\ onboarding.pc = "insertPersona"
    /\ \E outcome \in DbOutcomes :
        IF outcome = "error" THEN onboarding' = FailComplete(onboarding)
        ELSE LET id == Len(onboarding.custom_personas) + 1 IN
             onboarding' = [onboarding EXCEPT
                    !.custom_personas =
                        Append(@, [id |-> id, user_id |-> onboarding.user.id,
                                   name |-> onboarding.personaData.customPersonaName,
                                   writing_style |->
                                       onboarding.personaData.customPersonaStyle]),
                    !.customPersonaId = id,
                    !.pc = "upsert"]
    /\ UNCHANGED <<server, signup, team, agent, route>>

\* lines 138-170: the upsert of the profile resolves
ProfileUpserted ==
    /\ onboarding.mounted
    /\ onboarding.pc = "upsert"
    /\ \E outcome \in DbOutcomes :
        IF outcome = "error" THEN onboarding' = FailComplete(onboarding)
        ELSE onboarding' = [onboarding EXCEPT
                !.user_profiles =
                    [onboarding_complet |-> TRUE,
                     name |-> onboarding.profileData.name,
                     default_seller_id |->
                        IF onboarding.defaultSellerId # 0
                        THEN onboarding.defaultSellerId ELSE @.default_seller_id,
                     custom_persona_id |->
                        IF onboarding.customPersonaId # 0
                        THEN onboarding.customPersonaId ELSE @.custom_persona_id],
                !.location = "/dashboard",
                !.pc = "left"]
    /\ UNCHANGED <<server, signup, team, agent, route>>

NextOnboarding ==
    \/ handleProfileNext
    \/ handlePersonaNext
    \/ handlePersonaSkip
    \/ SetNewMemberName
    \/ AddMember
    \/ RemoveMember
    \/ SelectDefault
    \/ handleTeamNext
    \/ handleTeamSkip
    \/ SessionEnds
    \/ handleComplete
    \/ SellersSelected
    \/ SellerInserted
    \/ PersonaInserted
    \/ ProfileUpserted

SpecOnboarding == InitOnboarding /\ [][NextOnboarding]_vars

\* the created rows that are marked as default
DefaultRows ==
    {k \in 1..Len(onboarding.family_members) :
        onboarding.family_members[k].is_default}

\* one run of handleComplete, the first, went through without a failure
CompletedAtOnce ==
    /\ onboarding.mounted
    /\ onboarding.pc = "left"
    /\ onboarding.runs = 1

\* C22: after a first run of handleComplete that succeeded, exactly one created
\* family_members row has is_default = true, it is the row of the member chosen
\* as default in the team step, and user_profiles.default_seller_id is its id.
C22_OneDefaultSeller ==
    CompletedAtOnce =>
        /\ Cardinality(DefaultRows) = 1
        /\ \A k \in DefaultRows :
            /\ onboarding.family_members[k].member_id = onboarding.teamData.defaultMemberId
            /\ onboarding.user_profiles.default_seller_id = onboarding.family_members[k].id

\* the rows created for the team member at position m of teamData.members
RowsOfMember(m) ==
    {k \in 1..Len(onboarding.family_members) :
        onboarding.family_members[k].member_id = onboarding.teamData.members[m].id}

\* C23: when handleComplete has succeeded, after any number of failed runs,
\* every team member has exactly one family_members row, at most one
\* custom_personas row exists and the profile's default_seller_id is set.
C23_RetryIsIdempotent ==
    (onboarding.mounted /\ onboarding.pc = "left") =>
        /\ \A m \in 1..Len(onboarding.teamData.members) :
            Cardinality(RowsOfMember(m)) = 1
        /\ Len(onboarding.custom_personas) <= 1
        /\ onboarding.user_profiles.default_seller_id # 0

\* the same three conditions hold after a run that succeeded at once
SingleRunStored ==
    CompletedAtOnce =>
        /\ \A m \in 1..Len(onboarding.teamData.members) :
            Cardinality(RowsOfMember(m)) = 1
        /\ Len(onboarding.custom_personas) <= 1
        /\ onboarding.user_profiles.default_seller_id # 0

ErrorShown == "Une erreur est survenue. Veuillez reessayer."

\* the tables handleComplete writes to
Tables(o) == <<o.family_members, o.custom_personas, o.user_profiles>>

\* C24: the profile is written by one step only, the resolution of the upsert,
\* which marks it complete, writes no other table and ends the run, so that a
\* profile marked complete means a run ended without a failed write; the step
\* in which a write fails writes nothing, leaves the profile not marked
\* complete, shows the error message, sets loading to false and stays on the
\* completion step; a call of handleComplete without user or profile data
\* changes nothing.
C24_CompleteIsLastWrite ==
    /\ [](/\ onboarding.user_profiles.onboarding_complet =>
                onboarding.pc = "left" /\ ~onboarding.failed
          /\ onboarding.pc \in {"select", "insertSeller", "insertPersona", "upsert"} =>
                onboarding.loading /\ ~onboarding.user_profiles.onboarding_complet
          /\ (onboarding.failed /\ onboarding.pc = "idle") =>
                /\ ~onboarding.user_profiles.onboarding_complet
                /\ onboarding.error = ErrorShown
                /\ ~onboarding.loading
                /\ onboarding.currentStep = "completion")
    /\ [][/\ onboarding'.user_profiles # onboarding.user_profiles =>
                /\ onboarding.pc = "upsert" /\ onboarding'.pc = "left"
                /\ onboarding'.user_profiles.onboarding_complet
                /\ onboarding'.family_members = onboarding.family_members
                /\ onboarding'.custom_personas = onboarding.custom_personas
          /\ (onboarding'.failed /\ ~onboarding.failed) =>
                /\ Tables(onboarding') = Tables(onboarding)
                /\ onboarding'.error = ErrorShown
                /\ ~onboarding'.loading
                /\ onboarding'.currentStep = "completion"
          /\ (onboarding'.runs # onboarding.runs
                /\ (onboarding.user = Null \/ onboarding.profileData = Null)) =>
                onboarding' = [onboarding EXCEPT !.runs = onboarding'.runs]]_vars

\* the insert of the second member failed after the first member was inserted
C24_Witness ==
    /\ onboarding.mounted
    /\ onboarding.failed
    /\ onboarding.pc = "idle"
    /\ Len(onboarding.teamData.members) = 2
    /\ Len(onboarding.family_members) = 1
    /\ onboarding.error = ErrorShown
    /\ ~onboarding.user_profiles.onboarding_complet

\* handleComplete was called after the session had ended
C24_WitnessNoUser ==
    /\ onboarding.mounted
    /\ onboarding.user = Null
    /\ onboarding.runs = 1
    /\ onboarding.pc = "idle"
    /\ onboarding.family_members = <<>>

\* C28: while the team step is shown, 'main' is in the member list and
\* defaultMemberId is the id of a member of the list; removing 'main' changes
\* nothing, removing the current default makes 'main' the default, adding a
\* name that is empty after trimming changes nothing; and the team data handed
\* to the page has the same two properties.
C28_TeamInvariant ==
    /\ team.mounted =>
        /\ MainId \in IdsOf(team.members)
        /\ team.defaultMemberId \in IdsOf(team.members)
        /\ handleRemoveMember(team, MainId) = team
        /\ LET after == handleRemoveMember(team, team.defaultMemberId) IN
            /\ after.defaultMemberId = MainId
            /\ after.defaultMemberId \in IdsOf(after.members)
        /\ \A id \in IdsOf(team.members) :
            LET after == handleRemoveMember(team, id) IN
                /\ MainId \in IdsOf(after.members)
                /\ after.defaultMemberId \in IdsOf(after.members)
        /\ team.newMemberName \in {"", "  "} =>
            \A now \in 1..MaxClock : handleAddMember(team, now) = team
    /\ (onboarding.mounted /\ onboarding.teamData # Null) =>
        /\ MainId \in IdsOf(onboarding.teamData.members)
        /\ onboarding.teamData.defaultMemberId \in IdsOf(onboarding.teamData.members)

\* two members were added and the first was removed, the second is the selected
\* default, and a name of blanks is in the field
C28_Witness ==
    /\ team.mounted
    /\ team.now = 2
    /\ Len(team.members) = 2
    /\ team.members[2].id = NewMemberId(2)
    /\ team.defaultMemberId = NewMemberId(2)
    /\ team.newMemberName = "  "

----------------------------------------------------------------------------
(* VirtualAgent *)

\* number of analyses started and of replays of a message followed
MaxAnalyses == 2
MaxReplays == 1

Suggestion1 == [field |-> "title", suggestedValue |-> "Robe Zara fleurie"]
Suggestion2 == [field |-> "price", suggestedValue |-> "12"]

\* `${suggestion.field}-${suggestion.suggestedValue}`
SuggestionKey(suggestion) == <<suggestion.field, "-", suggestion.suggestedValue>>

UserMessage == [role |-> "user", content |-> "Analyse mon annonce, Baby !",
                suggestions |-> <<>>]
ApologyMessage == [role |-> "assistant",
                   content |-> "Desole, j'ai eu un souci technique. Reessayez ?",
                   suggestions |-> <<>>]

\* the component as mounted: lines 46-66; playing holds the audio sources that
\* play, ended counts the stopped sources whose ended event is not dispatched
\* yet, generating the speak calls that await their audio
InitAgent ==
    LET
        Greeting == [role |-> "assistant", content |-> "Bonjour ! Je suis Kelly votre coach de vente IA.",
                     suggestions |-> <<>>]
    IN
    /\ NoServer
    /\ signup = Unmounted
    /\ onboarding = Unmounted
    /\ team = Unmounted
    /\ route = Unmounted
    /\ agent = [mounted |-> TRUE, isOpen |-> FALSE, loading |-> FALSE,
                voiceEnabled |-> FALSE, isSpeaking |-> FALSE,
                appliedSuggestions |-> {}, hasAnalysis |-> FALSE,
                messages |-> <<Greeting>>,
                audioSourceRef |-> 0, playing |-> {}, ended |-> 0,
                generating |-> 0,
                pc |-> "idle", voiceAtClick |-> FALSE,
                analyses |-> 0, replays |-> 0]

\* audioSourceRef.current.stop(): a playing source stops, and its ended event
\* is dispatched later
StopRef(a) ==
    IF a.audioSourceRef # 0 /\ a.audioSourceRef \in a.playing
    THEN [a EXCEPT !.playing = @ \ {a.audioSourceRef},
                   !.ended = @ + 1]
    ELSE a

\* lines 116-126: speak up to its first await, with the voiceEnabled of the
\* render that created the function
speak(a, voiceEnabled) ==
    IF ~voiceEnabled THEN a
    ELSE [StopRef(a) EXCEPT !.isSpeaking = TRUE, !.generating = @ + 1]

\* lines 250-267: the round button
Open ==
    /\ agent.mounted
    /\ ~agent.isOpen
    /\ agent' = [agent EXCEPT !.isOpen = TRUE]
    /\ UNCHANGED <<server, signup, onboarding, team, route>>

\* lines 224-229
handleClose(a) == [a EXCEPT !.isOpen = FALSE, !.hasAnalysis = FALSE]

Close ==
    /\ agent.mounted
    /\ agent.isOpen
    /\ agent' = handleClose(agent)
    /\ UNCHANGED <<server, signup, onboarding, team, route>>

\* lines 152-162
toggleVoice ==
    /\ agent.mounted
    /\ agent.isOpen
    /\ IF agent.voiceEnabled
       THEN agent' = [StopRef(agent) EXCEPT !.voiceEnabled = FALSE,
                                            !.isSpeaking = FALSE]
       ELSE agent' = [agent EXCEPT !.voiceEnabled = TRUE]
    /\ UNCHANGED <<server, signup, onboarding, team, route>>

\* line 355: the loudspeaker button of an assistant message
Replay ==
    /\ agent.mounted
    /\ agent.isOpen
    /\ agent.voiceEnabled
    /\ agent.replays < MaxReplays
    /\ agent' = [speak(agent, agent.voiceEnabled) EXCEPT !.replays = @ + 1]
    /\ UNCHANGED <<server, signup, onboarding, team, route>>

\* lines 128-149: the audio of a speak call is ready or failed
SpeechSettles ==
    LET
        \* what generateSpeech and decodeAudioData may settle with
        SpeechOutcomes == {"audio", "rejected"}
        \* audioContext.createBufferSource(): a new source, named by the first
        \* number that names no source still playing or referenced
        source ==
            LET used == agent.playing \cup {agent.audioSourceRef}
            IN  CHOOSE n \in 1..(Cardinality(used) + 1) :
                    /\ n \notin used
                    /\ \A k \in 1..(n - 1) : k \in used
    IN
    /\ agent.mounted
    /\ agent.generating > 0
    /\ \E o \in SpeechOutcomes :
        IF o = "audio"
        THEN agent' = [agent EXCEPT !.generating = @ - 1,
                                    !.audioSourceRef = source,
                                    !.playing = @ \cup {source}]
        ELSE agent' = [agent EXCEPT !.generating = @ - 1, !.isSpeaking = FALSE]
    /\ UNCHANGED <<server, signup, onboarding, team, route>>

\* lines 140-143: source.onended
onended(a) == [a EXCEPT !.isSpeaking = FALSE, !.audioSourceRef = 0]

\* a playing source reaches the end of its buffer
SourceEnds ==
    /\ agent.mounted
    /\ \E src \in agent.playing :
        agent' = onended([agent EXCEPT !.playing = @ \ {src}])
    /\ UNCHANGED <<server, signup, onboarding, team, route>>

\* the ended event of a stopped source is dispatched
StoppedSourceEnded ==
    /\ agent.mounted
    /\ agent.ended > 0
    /\ agent' = onended([agent EXCEPT !.ended = @ - 1])
    /\ UNCHANGED <<server, signup, onboarding, team, route>>

\* a button that stays enabled while loading
ButtonDisabledNotWhileLoading(a) ==
    a.hasAnalysis /\ Cardinality(a.appliedSuggestions) = 0

\* line 434: disabled={loading || (hasAnalysis && appliedSuggestions.size === 0)}
ButtonDisabled(a) ==
    a.loading \/ (a.hasAnalysis /\ Cardinality(a.appliedSuggestions) = 0)

\* lines 171-175 and 433: the button while it reads "Analyser l'annonce";
\* speak is the function of the render in which the button was pressed, kept
\* until handleAnalyze returns
handleAnalyze ==
    /\ agent.mounted
    /\ agent.isOpen
    /\ ~agent.hasAnalysis
    /\ ~ButtonDisabled(agent)
    /\ agent.analyses < MaxAnalyses
    /\ agent' = [agent EXCEPT !.loading = TRUE,
                              !.messages = Append(@, UserMessage),
                              !.pc = "awaitCoach",
                              !.voiceAtClick = agent.voiceEnabled,
                              !.analyses = @ + 1]
    /\ UNCHANGED <<server, signup, onboarding, team, route>>

\* lines 175-192: getStructuredCoachAdvice resolves or rejects
CoachSettles ==
    LET
        \* what getStructuredCoachAdvice may settle with: an advice, or a rejection with
        \* one of its three messages
        CoachOutcomes ==
            {[kind |-> "advice",
              advice |-> [generalAdvice |-> "Ajoutez la marque au titre.", suggestions |-> sl]] :
                sl \in {<<Suggestion1>>, <<Suggestion1, Suggestion2>>}}
              \cup {[kind |-> "rejected", message |-> CoachErrorMessage(<<"quota">>)]}
        AdviceMessage(advice) ==
            [role |-> "assistant", content |-> advice.generalAdvice,
             suggestions |-> advice.suggestions]
    IN
    /\ agent.mounted
    /\ agent.pc = "awaitCoach"
    /\ \E o \in CoachOutcomes :
        IF o.kind = "advice"
        THEN agent' = [speak([agent EXCEPT !.messages = Append(@, AdviceMessage(o.advice)),
                                           !.hasAnalysis = TRUE],
                             agent.voiceAtClick)
                         EXCEPT !.loading = FALSE, !.pc = "idle",
                                !.voiceAtClick = FALSE]
        ELSE agent' = [speak([agent EXCEPT !.messages = Append(@, ApologyMessage)],
                             agent.voiceAtClick)
                         EXCEPT !.loading = FALSE, !.pc = "idle",
                                !.voiceAtClick = FALSE]
    /\ UNCHANGED <<server, signup, onboarding, team, route>>

\* lines 207-218
handleApplySuggestion ==
    LET
        \* the suggestions shown with a check box, those of every message
        ShownSuggestions(a) ==
            UNION {{a.messages[m].suggestions[k] : k \in 1..Len(a.messages[m].suggestions)} :
                      m \in 1..Len(a.messages)}
    IN
    /\ agent.mounted
    /\ agent.isOpen
    /\ \E suggestion \in ShownSuggestions(agent) :
        LET suggestionKey == SuggestionKey(suggestion) IN
        agent' = [agent EXCEPT !.appliedSuggestions =
                        IF suggestionKey \in @ THEN @ \ {suggestionKey}
                        ELSE @ \cup {suggestionKey}]
    /\ UNCHANGED <<server, signup, onboarding, team, route>>

\* lines 220-222
isSuggestionApplied(a, suggestion) ==
    SuggestionKey(suggestion) \in a.appliedSuggestions

\* lines 196-203: the calls of onApplySuggestion, a function of the parent,
\* made by handleApply
ApplyCalls(a) ==
    LET lastMessage == a.messages[Len(a.messages)] IN
    SelectSeq(lastMessage.suggestions, LAMBDA sg : isSuggestionApplied(a, sg))

\* lines 195-205 and 433: the button while it reads "Appliquer"
handleApply ==
    /\ agent.mounted
    /\ agent.isOpen
    /\ agent.hasAnalysis
    /\ ~ButtonDisabled(agent)
    /\ agent' = handleClose(agent)
    /\ UNCHANGED <<server, signup, onboarding, team, route>>

NextAgent ==
    \/ Open
    \/ Close
    \/ toggleVoice
    \/ Replay
    \/ SpeechSettles
    \/ SourceEnds
    \/ StoppedSourceEnded
    \/ handleAnalyze
    \/ CoachSettles
    \/ handleApplySuggestion
    \/ handleApply

SpecAgent == InitAgent /\ [][NextAgent]_vars

\* the coach call settles: the promise of getStructuredCoachAdvice is resolved
\* or rejected
SpecAgentLive == SpecAgent /\ WF_vars(CoachSettles)

\* the button reads "Appliquer (n ...)" or asks to select suggestions
ApplyShown == agent.mounted /\ agent.isOpen /\ agent.hasAnalysis /\ ~agent.loading

\* C25: while the Apply button is shown, the size of the selection set equals
\* the number of onApplySuggestion calls that pressing it makes, one for each
\* checked suggestion of the latest analysis, and the button is enabled only
\* when that number is at least 1.
C25_ApplyCount ==
    ApplyShown =>
        /\ Cardinality(agent.appliedSuggestions) = Len(ApplyCalls(agent))
        /\ ~ButtonDisabled(agent) => Len(ApplyCalls(agent)) >= 1

\* the same holds for the first analysis of a panel
FirstAnalysisCount ==
    (ApplyShown /\ agent.analyses = 1) =>
        /\ Cardinality(agent.appliedSuggestions) = Len(ApplyCalls(agent))
        /\ ~ButtonDisabled(agent) => Len(ApplyCalls(agent)) >= 1

\* C26: the set of playing audio sources is empty or holds exactly the source
\* in audioSourceRef, it is empty while voice is disabled, and isSpeaking is
\* true only while a speak call awaits its audio or a source plays.
C26_OneSource ==
    agent.mounted =>
        /\ agent.playing = {} \/ agent.playing = {agent.audioSourceRef}
        /\ ~agent.voiceEnabled => agent.playing = {}
        /\ agent.isSpeaking => (agent.generating > 0 \/ agent.playing # {})

\* at most one source plays; refuted by two speak calls that await their audio
\* at the same time, whose sources are both started
TwoSourcesNever == agent.mounted => Cardinality(agent.playing) <= 1

\* with a single speak call and no voice toggle after it, the three conditions
\* hold
OneSpeakOneSource ==
    (agent.mounted /\ agent.analyses + agent.replays <= 1 /\ agent.voiceEnabled) =>
        /\ agent.playing = {} \/ agent.playing = {agent.audioSourceRef}
        /\ agent.isSpeaking => (agent.generating > 0 \/ agent.playing # {})

LastMessage == agent.messages[Len(agent.messages)]

\* C29: an analysis that was started eventually ends with loading false; each
\* analysis appends the user message and then, when the coach call settles,
\* exactly one assistant message: the advice on success, the apology on
\* failure; hasAnalysis becomes true only in the step that appends an advice;
\* and an analysis starts only while loading is false.
C29_AnalysisEnds ==
    /\ [](/\ agent.loading <=> agent.pc = "awaitCoach"
          /\ Len(agent.messages) =
                1 + 2 * agent.analyses - (IF agent.loading THEN 1 ELSE 0)
          /\ \A k \in 1..agent.analyses :
                /\ agent.messages[2 * k] = UserMessage
                /\ 2 * k + 1 <= Len(agent.messages) =>
                      agent.messages[2 * k + 1].role = "assistant"
          /\ agent.hasAnalysis =>
                /\ ~agent.loading
                /\ LastMessage.role = "assistant"
                /\ LastMessage # ApologyMessage)
    /\ [][/\ agent'.analyses # agent.analyses =>
                /\ ~agent.loading /\ agent'.loading
                /\ agent'.messages = Append(agent.messages, UserMessage)
          /\ (agent.pc = "awaitCoach" /\ agent'.pc = "idle") =>
                /\ ~agent'.loading
                /\ Len(agent'.messages) = Len(agent.messages) + 1
                /\ agent'.messages[Len(agent'.messages)].role = "assistant"
                /\ agent'.messages[Len(agent'.messages)] = ApologyMessage =>
                      agent'.hasAnalysis = agent.hasAnalysis
          /\ (agent'.hasAnalysis /\ ~agent.hasAnalysis) =>
                /\ agent.pc = "awaitCoach"
                /\ agent'.messages[Len(agent'.messages)] # ApologyMessage
          /\ agent'.messages # agent.messages =>
                agent'.analyses # agent.analyses \/ agent.pc = "awaitCoach"]_vars
    /\ (agent.pc = "awaitCoach") ~> (agent.pc = "idle" /\ ~agent.loading)

\* a first analysis ended with the apology and a second with an advice
C29_Witness ==
    /\ agent.mounted
    /\ agent.analyses = 2
    /\ agent.pc = "idle"
    /\ ~agent.loading
    /\ Len(agent.messages) = 5
    /\ agent.messages[3] = ApologyMessage
    /\ agent.messages[5].suggestions = <<Suggestion1, Suggestion2>>
    /\ agent.hasAnalysis

----------------------------------------------------------------------------
(* ProtectedRoute and the routes of App *)

\* number of consecutive redirects followed
MaxHops == 4

\* lines 529-534 of App: the public routes
PublicPaths == {"/", "/login", "/signup", "/privacy", "/terms", "/contact"}

\* lines 554-566 of App: the routes inside AppLayout, with sample ids
AppPaths ==
    {"/dashboard-v2", "/admin-v2", "/articles/new-v2", "/articles/7/edit-v2",
     "/articles/7/preview", "/articles/7/structure", "/lots/3/structure",
     "/analytics", "/planner", "/photo-studio", "/profile", "/family", "/settings"}

Paths ==
    LET
        \* paths that no route but the two "*" routes matches
        UnmatchedPaths == {"/dashboard", "/articles", "/onboarding/team"}
    IN
         PublicPaths \cup {"/onboarding"} \cup AppPaths \cup UnmatchedPaths

Render(page) == [kind |-> "render", page |-> page]
Redirect(to) == [kind |-> "redirect", to |-> to]

\* a guard that also redirects from /onboarding
ProtectedRouteAlways(r, children) ==
    IF r.loading THEN Render(<<"Chargement...">>)
    ELSE IF ~r.user THEN Redirect("/login")
    ELSE IF r.needsOnboarding THEN Redirect("/onboarding")
    ELSE children

\* ProtectedRoute.tsx lines 4-28
ProtectedRoute(r, children) ==
    IF r.loading THEN Render(<<"Chargement...">>)
    ELSE IF ~r.user THEN Redirect("/login")
    ELSE IF r.needsOnboarding /\ r.pathname # "/onboarding" THEN Redirect("/onboarding")
    ELSE children

\* lines 526-577 of App: what the routes give at the location
Routes(r) ==
    IF r.pathname \in PublicPaths THEN Render(<<"public", r.pathname>>)
    ELSE IF r.pathname = "/onboarding"
    THEN ProtectedRoute(r, Render(<<"children", "OnboardingPage">>))
    ELSE ProtectedRoute(r, IF r.pathname \in AppPaths
                           THEN Render(<<"children", r.pathname>>)
                           ELSE Redirect("/admin-v2"))

\* the application is opened at a path while the auth context is loading
InitRoute ==
    /\ NoServer
    /\ signup = Unmounted
    /\ onboarding = Unmounted
    /\ team = Unmounted
    /\ agent = Unmounted
    /\ \E p \in Paths :
        route = [mounted |-> TRUE, pathname |-> p, loading |-> TRUE, user |-> FALSE,
                 needsOnboarding |-> FALSE, view |-> <<"pending">>, hops |-> 0]

\* the router renders the location: an element, or a Navigate that replaces
\* the location
RenderLocation ==
    /\ route.mounted
    /\ route.view = <<"pending">>
    /\ route.hops < MaxHops
    /\ LET element == Routes(route) IN
        IF element.kind = "redirect"
        THEN route' = [route EXCEPT !.pathname = element.to, !.hops = @ + 1]
        ELSE route' = [route EXCEPT !.view = element.page]
    /\ UNCHANGED <<server, signup, onboarding, team, agent>>

\* useAuth: the session and the profile are loaded
AuthLoaded ==
    /\ route.mounted
    /\ route.loading
    /\ \E user \in BOOLEAN, needsOnboarding \in BOOLEAN :
        /\ needsOnboarding => user
        /\ route' = [route EXCEPT !.loading = FALSE, !.user = user,
                                  !.needsOnboarding = needsOnboarding,
                                  !.view = <<"pending">>, !.hops = 0]
    /\ UNCHANGED <<server, signup, onboarding, team, agent>>

\* useAuth: the user signs out or the session ends
SignedOut ==
    /\ route.mounted
    /\ ~route.loading
    /\ route.user
    /\ route' = [route EXCEPT !.user = FALSE, !.needsOnboarding = FALSE,
                              !.view = <<"pending">>, !.hops = 0]
    /\ UNCHANGED <<server, signup, onboarding, team, agent>>

\* a link or the address bar
GoTo ==
    /\ route.mounted
    /\ route.view # <<"pending">>
    /\ \E p \in Paths :
        /\ p # route.pathname
        /\ route' = [route EXCEPT !.pathname = p, !.view = <<"pending">>, !.hops = 0]
    /\ UNCHANGED <<server, signup, onboarding, team, agent>>

\* OnboardingPage.tsx lines 168-170: window.location.href = '/dashboard'
\* reloads the application
OnboardingDone ==
    /\ route.mounted
    /\ route.view = <<"children", "OnboardingPage">>
    /\ route' = [route EXCEPT !.pathname = "/dashboard", !.loading = TRUE,
                              !.user = FALSE, !.needsOnboarding = FALSE,
                              !.view = <<"pending">>, !.hops = 0]
    /\ UNCHANGED <<server, signup, onboarding, team, agent>>

NextRoute ==
    \/ RenderLocation
    \/ AuthLoaded
    \/ SignedOut
    \/ GoTo
    \/ OnboardingDone

SpecRoute == InitRoute /\ [][NextRoute]_vars

\* the step is a redirect
RedirectStep == route'.hops = route.hops + 1

\* the step renders an element at the location
RenderStep == route.view = <<"pending">> /\ route'.view # <<"pending">>

\* C27: children are rendered only when loading is over, a user is present and
\* onboarding is not needed or the path is /onboarding; at a protected path a
\* missing user is redirected to /login, a user needing onboarding is
\* redirected to /onboarding from every other path and rendered at /onboarding
\* without a further redirect, and a path that no route matches is redirected
\* to /admin-v2, where the page is rendered; no location is redirected twice.
C27_ProtectedRoute ==
    /\ [](/\ route.view[1] = "children" =>
                /\ ~route.loading /\ route.user
                /\ ~route.needsOnboarding \/ route.pathname = "/onboarding"
                /\ route.view[2] = (IF route.pathname = "/onboarding"
                                    THEN "OnboardingPage" ELSE route.pathname)
                /\ route.pathname \in AppPaths \cup {"/onboarding"}
          /\ route.hops <= 1
          /\ (route.hops = 1 /\ route.view # <<"pending">>) =>
                /\ ~route.user => route.view = <<"public", "/login">>
                /\ route.needsOnboarding => route.view = <<"children", "OnboardingPage">>
                /\ (route.user /\ ~route.needsOnboarding) =>
                      route.view = <<"children", "/admin-v2">>)
    /\ [][/\ RedirectStep =>
                /\ ~route.loading
                /\ route.pathname \notin PublicPaths
                /\ route'.pathname =
                      (IF ~route.user THEN "/login"
                       ELSE IF route.needsOnboarding THEN "/onboarding"
                       ELSE "/admin-v2")
                /\ route.needsOnboarding => route.pathname # "/onboarding"
                /\ (route.user /\ ~route.needsOnboarding) =>
                      route.pathname \notin AppPaths \cup {"/onboarding"}
          /\ (RenderStep /\ ~route.loading /\ route.pathname \notin PublicPaths) =>
                /\ route.user
                /\ route'.view[1] = "children"
                /\ route'.pathname = route.pathname]_vars

\* /dashboard, which no route matches, ended at /admin-v2 with the page rendered
C27_Witness ==
    /\ route.mounted
    /\ route.pathname = "/admin-v2"
    /\ route.hops = 1
    /\ route.user
    /\ route.view = <<"children", "/admin-v2">>

\* a user needing onboarding was redirected once and sees the onboarding page
C27_WitnessOnboarding ==
    /\ route.mounted
    /\ route.needsOnboarding
    /\ route.hops = 1
    /\ route.view = <<"children", "OnboardingPage">>

====
